---- MODULE Spec2Model ----
(***************************************************************************)
(* Model of the video pipeline's captioning path:                          *)
(*   VideoPipeline.run / processVideo  (workflows/video-pipeline.ts)       *)
(*   CaptionService.createCaptionedVideo and its helpers                   *)
(*                                      (services/caption.service.ts)      *)
(*   downloadFile (utils/http.ts), resampleAudioIfNeeded                   *)
(*                                      (services/media.service.ts)        *)
(* and of the stages that precede it (screenshot, texts, music,            *)
(* voiceovers, asset upload, render), each gated on its output file, and   *)
(* the construction of the services from the environment.                  *)
(* Spec is the run of the command; SpecMerge explores correctTranscript    *)
(* over all small transcripts, SpecTwo a second process in                 *)
(* createCaptionedVideo for the same file, SpecUrl waitForUrlAvailability. *)
(* One action is one continuation of the async code: it consumes the       *)
(* result of the await the code is suspended on and runs the code up to    *)
(* the next await, the throw or the return.                                *)
(***************************************************************************)
EXTENDS Integers, Sequences, FiniteSets, TLC

(* ------------------------------ bounds --------------------------------- *)
\* chunks of a transcript, and items of a correction response, in the
\* specification that explores correctTranscript over all small inputs
MaxChunks == 3
\* the largest maxAttempts waitForUrlAvailability is called with
MaxUrlAttempts == 5
\* status probes the provider answers per polling phase before it must
\* answer with a status that ends the loop (the loop itself has no ceiling)
MaxProbes == 2

(* ------------------------- program constants --------------------------- *)
BackoffBaseMs == 2000
PollIntervalMs == 2000
TargetRate == 44100

(* ------------------------------ inputs --------------------------------- *)
VideoIds == <<"v1", "v2">>
LanguageLists == { <<"ENGLISH", "RUSSIAN">>, <<"UKRAINIAN", "ENGLISH">> }
LanguageSet == {"ENGLISH", "RUSSIAN", "UKRAINIAN"}
VideoIdSet == {VideoIds[i] : i \in 1..Len(VideoIds)}
\* values of the CAPTION_MAX_RETRIES environment variable, as characters
RetryEnvValues == { <<>>, <<"x">>, <<"-", "1">>, <<"0">>, <<"1", "x">> }
\* audio sample rates of a file the provider renders; 0: no audio stream
ProviderRates == {0, 44100, 48000}
\* setup.json of the videos: the first asks for background music, the others
\* do not (or have no setup.json: the default is no music)
SetupChoices ==
  { [v \in VideoIdSet |-> [backgroundMusic |-> v = VideoIds[1]]] }
\* values of an environment variable: unset, blank, set
EnvValues == { <<>>, <<" ">>, <<"k">> }
RequiredNames ==
  {"OPENAI_API_KEY", "VOICE_MAKER_API_KEY", "S3_BUCKET", "JSON2VIDEO_API_KEY",
   "ZAPCAP_API_KEY", "ZAPCAP_TEMPLATE_ID"}
\* environments in which at most one required variable is unset or blank
EnvChoices ==
  { [n \in RequiredNames |-> IF n = bad THEN value ELSE <<"k">>] :
      bad \in RequiredNames, value \in EnvValues }

(* ----------------------- environment.ts / parseInt --------------------- *)
\* a JavaScript number: an integer or NaN
NaN == [nan |-> TRUE, val |-> 0]
Num(v) == [nan |-> FALSE, val |-> v]
Digits == {"0", "1", "2", "3", "4", "5", "6", "7", "8", "9"}

DigitValue(c) ==
  CASE c = "0" -> 0 [] c = "1" -> 1 [] c = "2" -> 2 [] c = "3" -> 3 [] c = "4" -> 4
    [] c = "5" -> 5 [] c = "6" -> 6 [] c = "7" -> 7 [] c = "8" -> 8 [] c = "9" -> 9

\* !value || !value.trim()
IsBlank(value) == \A i \in 1..Len(value) : value[i] = " "

ReadsAnything(value) == FALSE

\* readRequiredEnv throws for a missing or blank value
readRequiredEnvThrows(value) == IsBlank(value)

\* the required variables the constructors of the services read, in the order
\* of the field initializers of VideoPipeline; fails names the failing step
ConstructorReads ==
  << [name |-> "OPENAI_API_KEY", fails |-> "new TextGenerationService"],
     [name |-> "OPENAI_API_KEY", fails |-> "new MusicSelectionService"],
     [name |-> "VOICE_MAKER_API_KEY", fails |-> "new VoiceoverService"],
     [name |-> "S3_BUCKET", fails |-> "new StorageService"],
     [name |-> "JSON2VIDEO_API_KEY", fails |-> "new RenderService"],
     [name |-> "ZAPCAP_API_KEY", fails |-> "new CaptionService"],
     [name |-> "ZAPCAP_TEMPLATE_ID", fails |-> "new CaptionService"],
     [name |-> "OPENAI_API_KEY", fails |-> "new CaptionService"] >>

\* the first read that throws in environment e, 0 if none does
FirstMissing(e) ==
  LET failing == {i \in 1..Len(ConstructorReads) :
                    readRequiredEnvThrows(e[ConstructorReads[i].name])}
  IN IF failing = {} THEN 0 ELSE CHOOSE i \in failing : \A j \in failing : i <= j

\* readOptionalEnv: a missing or blank value gives the fallback
readOptionalEnv(value, fallback) == IF value = <<>> THEN fallback ELSE value

RECURSIVE LeadingDigits(_, _)
\* value of the longest prefix of digits of s, accumulated on acc
LeadingDigits(s, acc) ==
  IF s = <<>> \/ Head(s) \notin Digits THEN acc
  ELSE LeadingDigits(Tail(s), 10 * acc + DigitValue(Head(s)))

\* Number.parseInt(s, 10): optional sign, then the leading digits; NaN if none
parseInt(s) ==
  LET neg  == s # <<>> /\ Head(s) = "-"
      body == IF s # <<>> /\ Head(s) \in {"-", "+"} THEN Tail(s) ELSE s
  IN IF body = <<>> \/ Head(body) \notin Digits THEN NaN
     ELSE IF neg THEN Num(0 - LeadingDigits(body, 0)) ELSE Num(LeadingDigits(body, 0))

DefaultRetries == <<"3">>

maxRetryAttemptsValidated(envValue) ==
  LET parsed == parseInt(readOptionalEnv(envValue, DefaultRetries))
  IN IF parsed.nan \/ parsed.val < 1 THEN parseInt(DefaultRetries) ELSE parsed

\* CaptionService constructor: this.maxRetryAttempts
maxRetryAttemptsOf(envValue) == parseInt(readOptionalEnv(envValue, DefaultRetries))

\* maxRetryAttempts of a CaptionService that was not constructed
Unassigned == [nan |-> TRUE, val |-> -1]

\* JavaScript comparisons with a possibly-NaN right operand
LessEq(a, b) == ~b.nan /\ a <= b.val
Less(a, b) == ~b.nan /\ a < b.val

(* --------------------------- caption.service.ts ------------------------ *)
languageToZapcapCode ==
  [l \in {"ENGLISH", "SPANISH", "RUSSIAN", "FRENCH", "GERMAN", "ITALIAN", "PORTUGUESE"} |->
     CASE l = "ENGLISH" -> "en" [] l = "SPANISH" -> "es" [] l = "RUSSIAN" -> "ru"
       [] l = "FRENCH" -> "fr" [] l = "GERMAN" -> "de" [] l = "ITALIAN" -> "it"
       [] l = "PORTUGUESE" -> "pt"]

HasCodeOfVoiceMaker(language) ==
  language \in {"ENGLISH", "SPANISH", "RUSSIAN", "FRENCH", "GERMAN", "ITALIAN",
                "PORTUGUESE", "UKRAINIAN", "CHINESE"}

\* languageToZapcapCode[language.toUpperCase()] is defined
HasZapcapCode(language) == language \in DOMAIN languageToZapcapCode

\* voiceover.service.ts: the languages of languageToVoiceMakerCode
VoiceMakerLanguages ==
  {"ENGLISH", "SPANISH", "RUSSIAN", "FRENCH", "GERMAN", "ITALIAN", "PORTUGUESE",
   "UKRAINIAN", "CHINESE"}
HasVoiceMakerCode(language) == language \in VoiceMakerLanguages

NoId == 0
NoUrl == <<"none", 0>>
TranscriptUrlOf(job) == <<"transcript", job>>
DownloadUrlOf(job) == <<"download", job>>

\* statuses the provider may report
KnownStatuses == {"transcribing", "transcriptionCompleted", "completed", "failed"}
Statuses == KnownStatuses \cup {"archived"}
TranscriptTargets == {"transcriptionCompleted"}
CompletedTargets == {"completed"}

NoStatus == [status |-> "none", error |-> "none", transcript |-> NoUrl, downloadUrl |-> NoUrl]

\* CaptionTaskStatus payloads the provider may answer for a job
StatusPayloads(job) ==
  { [status |-> s, error |-> "none", transcript |-> NoUrl, downloadUrl |-> NoUrl] :
      s \in Statuses }
  \cup { [status |-> "failed", error |-> "quota exceeded", transcript |-> NoUrl,
          downloadUrl |-> NoUrl],
        [status |-> "transcriptionCompleted", error |-> "none",
          transcript |-> TranscriptUrlOf(job), downloadUrl |-> NoUrl],
        [status |-> "completed", error |-> "none",
          transcript |-> TranscriptUrlOf(job), downloadUrl |-> DownloadUrlOf(job)] }

Undefined == [kind |-> "undefined", attempt |-> 0, detail |-> "none"]
Err(kind, n, detail) == [kind |-> kind, attempt |-> n, detail |-> detail]

\* files
Absent == [state |-> "absent", rate |-> 0]
Partial == [state |-> "partial", rate |-> 0]
Complete(r) == [state |-> "complete", rate |-> r]
Exists(f) == f.state # "absent"

\* transcript chunks: text is absent, empty or a word; meta stands for the
\* timing fields that are passed through
NoText == "<absent>"
Chunk(t, m) == [text |-> t, meta |-> m]
Item(t) == [text |-> t]
HasText(chunk) == chunk.text # NoText /\ chunk.text # ""

\* transcripts the provider serves and item lists the correction model returns
Transcripts == { <<Chunk("helo", 1), Chunk(NoText, 2)>> }
CorrectionItems == { <<>>, <<Item("hello")>> }
NoTranscript == <<>>
\* all transcripts and all item lists of at most MaxChunks entries; an item
\* without text is one the model returned against the requested schema
ChunkTexts == {NoText, "", "helo", "wrold"}
ItemTexts == {NoText, "", "hello", "world"}
WideTranscripts ==
  UNION { { [i \in 1..n |-> Chunk(f[i], i)] : f \in [1..n -> ChunkTexts] } : n \in 0..MaxChunks }
WideItems ==
  UNION { { [i \in 1..n |-> Item(f[i])] : f \in [1..n -> ItemTexts] } : n \in 0..MaxChunks }
\* what correctTranscriptChunks returned to correctTranscript (parsed.items)
NoItems == [given |-> FALSE, items |-> <<>>]
Returns(items) == [given |-> TRUE, items |-> items]

compactTranscriptOfAll(transcript) ==
  [i \in 1..Len(transcript) |-> Item(transcript[i].text)]

\* correctTranscript: the chunks sent to the correction model
compactTranscript(transcript) ==
  LET chunksWithText == SelectSeq(transcript, HasText)
  IN [i \in 1..Len(chunksWithText) |-> Item(chunksWithText[i].text)]

RECURSIVE MergeFromDense(_, _, _)
MergeFromDense(chunks, correctedChunks, correctionIndex) ==
  IF chunks = <<>> THEN <<>>
  ELSE LET chunk == Head(chunks)
       IN IF HasText(chunk)
          THEN << [chunk EXCEPT !.text =
                     IF correctionIndex <= Len(correctedChunks)
                        /\ correctedChunks[correctionIndex].text # NoText
                     THEN correctedChunks[correctionIndex].text
                     ELSE chunk.text] >>
               \o MergeFromDense(Tail(chunks), correctedChunks, correctionIndex + 1)
          ELSE <<chunk>> \o MergeFromDense(Tail(chunks), correctedChunks, correctionIndex + 1)

RECURSIVE MergeFrom(_, _, _)
\* correctTranscript: the loop over transcriptCopy, from correctionIndex on
MergeFrom(chunks, correctedChunks, correctionIndex) ==
  IF chunks = <<>> THEN <<>>
  ELSE LET chunk == Head(chunks)
       IN IF HasText(chunk)
          THEN << [chunk EXCEPT !.text =
                     IF correctionIndex <= Len(correctedChunks)
                        /\ correctedChunks[correctionIndex].text # NoText
                     THEN correctedChunks[correctionIndex].text
                     ELSE chunk.text] >>
               \o MergeFrom(Tail(chunks), correctedChunks, correctionIndex + 1)
          ELSE <<chunk>> \o MergeFrom(Tail(chunks), correctedChunks, correctionIndex)

ShapeAlwaysMatches(correctedChunks, compact) == TRUE

ShapeAtMost(correctedChunks, compact) == Len(correctedChunks) <= Len(compact)

\* correctTranscript: the length check
ShapeMatches(correctedChunks, compact) == Len(correctedChunks) = Len(compact)

(* ------------------------------- state --------------------------------- *)
VARIABLES
  retryEnv,           \* CAPTION_MAX_RETRIES in the process environment
  env,                \* the required variables of the process environment
  setups,             \* the setup of each video, as loadVideoSetup resolves it
  languages,          \* options.languages
  maxRetryAttempts,   \* CaptionService.maxRetryAttempts
  ppc,                \* where run/processVideo is suspended
  vi, li,             \* index of the current video / language
  failedStage,        \* the stage whose error reached main().catch
  texts,              \* processVideo: the languages generatedTexts has a text for
  stages,             \* the stages processVideo invoked for the current video
  artifacts,          \* screenshot, texts, music and voiceover files that exist
  outFile,            \* captioned_<LANG>.mp4 of each video
  tmpFile,            \* captioned_<LANG>_resampled_44100.mp4 of the current request
  rendered,           \* rendered_<LANG>.mp4 of each video exists
  cpc,                \* where createCaptionedVideo is suspended
  attempt, lastError, \* createCaptionedVideo: loop counter, lastError
  videoId, taskId,    \* locals of the try block
  transcriptUrl, originalTranscript, correctedTranscript, downloadUrl,
  parsedItems,        \* correctTranscript: the list correctTranscriptChunks returned
  targetStatuses,     \* waitForTaskStatus: targetStatuses
  status,             \* waitForTaskStatus: status
  probes,             \* status probes answered in the current polling phase
  uploadsReceived,    \* provider: upload requests of the current caption request
  trace,              \* external operations the current attempt has started
  backoffs,           \* backoff sleeps of the current caption request, in ms
  result,             \* how createCaptionedVideo ended
  peer,               \* an invocation of createCaptionedVideo for the same
                      \* outputPath by another process, if there is one
  avail               \* a call of waitForUrlAvailability, if there is one

inputVars == <<retryEnv, env, setups, languages>>
runVars == <<inputVars, peer, avail, maxRetryAttempts, ppc, vi, li, failedStage, texts>>
pipeVars == <<runVars, stages>>
fsVars == <<outFile, tmpFile, rendered, artifacts>>
idVars == <<videoId, taskId>>
valueVars == <<transcriptUrl, originalTranscript, correctedTranscript, downloadUrl,
               parsedItems, targetStatuses, status, probes>>
localVars == <<idVars, valueVars>>
loopVars == <<cpc, attempt, lastError, backoffs, result>>
vars == <<pipeVars, fsVars, localVars, loopVars, uploadsReceived, trace>>

Paths == VideoIdSet \X LanguageSet
videoIdNow == VideoIds[vi]
language == languages[li]
\* workspace.captionedVideoPath(language)
outputPath == <<videoIdNow, language>>

\* the other invocation: where it is suspended, its loop counter, its videoId
NoPeer == [pc |-> "none", attempt |-> 0, job |-> NoId]
\* the frame of waitForUrlAvailability: where it is suspended, its parameters,
\* its loop counter, the HEAD probes sent, the sleeps made, and whether the
\* last probe succeeded
NoWait ==
  [pc |-> "none", maxAttempts |-> 0, intervalMs |-> 0, attempt |-> 0, probes |-> 0,
   sleeps |-> <<>>, succeeded |-> FALSE]

NoResult == [kind |-> "none", path |-> <<"none", "none">>, cause |-> Undefined]
Returned(path) == [kind |-> "path", path |-> path, cause |-> Undefined]
Thrown(cause) == [kind |-> "error", path |-> <<"none", "none">>, cause |-> cause]

\* entries of stages: a stage, its language if it has one, and whether it
\* went past its existence check to the call that produces its file
NoLanguage == "-"
Stage(name, lang) == [stage |-> name, language |-> lang, ran |-> FALSE]
MarkRan(invoked) == [invoked EXCEPT ![Len(invoked)].ran = TRUE]

\* generatedTexts: the languages it may hold a non-empty text for, read from
\* generatedTexts.json or parsed from the model's answer
GeneratedTextsChoices(langs) ==
  LET all == {langs[i] : i \in 1..Len(langs)}
  IN {all, all \ {langs[Len(langs)]}}
\* generatedTexts[language] is a non-empty string
HasGeneratedText(have, lang) == lang \in have

\* entries of trace
Call(op) == [op |-> op, job |-> NoId, task |-> NoId, url |-> NoUrl, ms |-> 0, chunks |-> <<>>]
JobCall(op, job, task) == [Call(op) EXCEPT !.job = job, !.task = task]
UrlCall(op, url) == [Call(op) EXCEPT !.url = url]
SleepCall(ms) == [Call("pollSleep") EXCEPT !.ms = ms]
\* correctTranscriptChunks(originalText, chunks): the request to the model
CorrectCall(chunks) == [Call("correct") EXCEPT !.chunks = chunks]

\* the caption request is not running: its frame does not exist
CaptionIdle ==
  /\ cpc = "idle" /\ attempt = 0 /\ lastError = Undefined
  /\ backoffs = <<>> /\ result = NoResult
  /\ videoId = NoId /\ taskId = NoId /\ transcriptUrl = NoUrl
  /\ originalTranscript = NoTranscript /\ correctedTranscript = NoTranscript
  /\ downloadUrl = NoUrl /\ parsedItems = NoItems
  /\ targetStatuses = {} /\ status = NoStatus /\ probes = 0
  /\ uploadsReceived = 0 /\ trace = <<>>

\* captioned files an earlier run of the same command, finished or killed,
\* left for the first language of the first video
LeftOvers == {Absent, Partial, Complete(TargetRate)}

\* the files of the first video after a run that finished it
FinishedArtifacts(langs, setup) ==
  {<<VideoIds[1], "screenshot", NoLanguage>>, <<VideoIds[1], "texts", NoLanguage>>}
  \cup (IF setup.backgroundMusic THEN {<<VideoIds[1], "music", NoLanguage>>} ELSE {})
  \cup {<<VideoIds[1], "voiceover", langs[i]>> : i \in 1..Len(langs)}

\* the workspace at the start: nothing but a captioned file an earlier run
\* left for the first language, or the first video finished by an earlier run
Workspaces(langs, setup) ==
  { [outFile |-> [p \in Paths |-> IF p = <<VideoIds[1], langs[1]>> THEN left ELSE Absent],
     rendered |-> [p \in Paths |-> FALSE],
     artifacts |-> {}] : left \in LeftOvers }
  \cup
  { [outFile |-> [p \in Paths |->
                   IF p[1] = VideoIds[1] /\ \E i \in 1..Len(langs) : p[2] = langs[i]
                   THEN Complete(TargetRate) ELSE Absent],
     rendered |-> [p \in Paths |-> p[1] = VideoIds[1] /\ \E i \in 1..Len(langs) : p[2] = langs[i]],
     artifacts |-> FinishedArtifacts(langs, setup)] }

Init ==
  /\ retryEnv \in RetryEnvValues
  /\ env \in EnvChoices
  /\ setups \in SetupChoices
  /\ languages \in LanguageLists
  /\ maxRetryAttempts = Unassigned
  /\ ppc = "start" /\ vi = 1 /\ li = 1 /\ failedStage = "none"
  /\ texts = {} /\ stages = <<>>
  /\ peer = NoPeer /\ avail = NoWait
  /\ \E w \in Workspaces(languages, setups[VideoIds[1]]) :
       outFile = w.outFile /\ rendered = w.rendered /\ artifacts = w.artifacts
  /\ tmpFile = Absent
  /\ CaptionIdle

(* ---------------- createCaptionedVideo: gate and retry loop ------------- *)
fileExistsInverted(file) == ~Exists(file)

fileExistsNever(file) == FALSE

\* fileExists(outputPath): access() succeeds on whatever is at the path
fileExists(file) == Exists(file)

LoopStopsEarly(n, max) == Less(n, max)

\* for (...; attempt <= this.maxRetryAttempts; ...)
LoopContinues(n, max) == LessEq(n, max)

SleepsAfterEvery(n, max) == LessEq(n, max)

\* if (attempt < this.maxRetryAttempts)
SleepsAfter(n, max) == Less(n, max)

BackoffConstant(n) == BackoffBaseMs

\* sleep(2_000 * attempt)
BackoffDelay(n) == BackoffBaseMs * n

BindJobOnce(previous, issued) == IF previous # NoId THEN previous ELSE issued

\* const videoId = await this.uploadVideo(...): a binding of the try block.
\* previous is the identifier the attempt before was bound to (the model
\* keeps it after the block ended so that a reuse would show)
BindJob(previous, issued) == issued

RecordedFirst(previous, error) == IF previous = Undefined THEN error ELSE previous

\* lastError = error
Recorded(previous, error) == error

\* the bindings of the try block other than the identifiers end with the block
ScopeExit ==
  /\ transcriptUrl' = NoUrl /\ downloadUrl' = NoUrl
  /\ originalTranscript' = NoTranscript /\ correctedTranscript' = NoTranscript
  /\ targetStatuses' = {} /\ probes' = 0

\* the loop test with attempt = n: the next attempt starts with uploadVideo,
\* or the loop ends and the aggregated error is thrown with lastError = error
EnterLoop(n, error) ==
  /\ attempt' = n
  /\ IF LoopContinues(n, maxRetryAttempts)
     THEN /\ cpc' = "awaitUpload"
          /\ trace' = <<Call("upload")>>
          /\ uploadsReceived' = uploadsReceived + 1
          /\ result' = result
     ELSE /\ cpc' = "threw"
          /\ result' = Thrown(error)
          /\ UNCHANGED <<trace, uploadsReceived>>

\* the catch block, and the loop's increment and test when it does not sleep;
\* answer is the status payload that made waitForTaskStatus throw and response
\* the list that made correctTranscript throw, if any
CatchKeeping(error, answer, response) ==
  /\ lastError' = Recorded(lastError, error)
  /\ ScopeExit
  /\ status' = answer
  /\ parsedItems' = response
  /\ IF SleepsAfter(attempt, maxRetryAttempts)
     THEN /\ cpc' = "awaitBackoff"
          /\ backoffs' = Append(backoffs, BackoffDelay(attempt))
          /\ UNCHANGED <<attempt, result, trace, uploadsReceived>>
     ELSE /\ backoffs' = backoffs
          /\ EnterLoop(attempt + 1, lastError')

CatchWith(error, answer) == CatchKeeping(error, answer, NoItems)

Catch(error) == CatchWith(error, NoStatus)

\* an await of the try block returned: the next external operation starts
Proceed(next, call) ==
  /\ cpc' = next
  /\ trace' = Append(trace, call)
  /\ UNCHANGED <<attempt, lastError, backoffs, result, uploadsReceived>>

\* the existence check of outputPath answered
GateResponse ==
  /\ cpc = "awaitFileExists"
  /\ IF fileExists(outFile[outputPath])
     THEN /\ cpc' = "returned"
          /\ result' = Returned(outputPath)
          /\ UNCHANGED <<attempt, lastError, backoffs, trace, uploadsReceived>>
     ELSE /\ lastError' = Undefined
          /\ backoffs' = backoffs
          /\ EnterLoop(1, Undefined)
  /\ stages' = IF cpc' = "awaitUpload" THEN MarkRan(stages) ELSE stages
  /\ UNCHANGED <<runVars, fsVars, localVars>>

BackoffDoneRecheckingGate ==
  /\ cpc = "awaitBackoff"
  /\ IF fileExists(outFile[outputPath])
     THEN /\ cpc' = "returned" /\ result' = Returned(outputPath)
          /\ UNCHANGED <<attempt, trace, uploadsReceived>>
     ELSE EnterLoop(attempt + 1, lastError)
  /\ UNCHANGED <<pipeVars, fsVars, localVars, lastError, backoffs>>

\* the backoff sleep of the catch block ended
BackoffDone ==
  /\ cpc = "awaitBackoff"
  /\ EnterLoop(attempt + 1, lastError)
  /\ UNCHANGED <<pipeVars, fsVars, localVars, lastError, backoffs>>

(* -------------------- uploadVideo, createCaptionTask ------------------- *)
\* the provider numbers the jobs of a caption request by the upload that
\* created them, and a task by its job
JobOfUpload(n) == n
TaskOfJob(job) == job

\* POST /videos answered
UploadResponse ==
  /\ cpc = "awaitUpload"
  /\ \/ /\ Catch(Err("network", attempt, "request failed"))
        /\ UNCHANGED idVars
     \/ /\ Catch(Err("provider", attempt, "upload response does not contain video id"))
        /\ UNCHANGED idVars
     \/ /\ videoId' = BindJob(videoId, JobOfUpload(uploadsReceived))
        /\ taskId' = taskId
        /\ IF HasZapcapCode(language)
           THEN /\ Proceed("awaitCreateTask", JobCall("createTask", videoId', NoId))
                /\ UNCHANGED valueVars
           ELSE Catch(Err("unsupportedLanguage", attempt, language))
  /\ UNCHANGED <<pipeVars, fsVars>>

\* waitForTaskStatus entered: the first GET of a polling phase
StartPolling(targets) ==
  /\ targetStatuses' = targets
  /\ probes' = 0
  /\ status' = NoStatus
  /\ UNCHANGED <<transcriptUrl, originalTranscript, correctedTranscript, downloadUrl,
                 parsedItems>>

\* POST /videos/{videoId}/task answered
CreateTaskResponse ==
  /\ cpc = "awaitCreateTask"
  /\ \/ /\ Catch(Err("network", attempt, "request failed"))
        /\ UNCHANGED idVars
     \/ /\ Catch(Err("provider", attempt, "task response does not contain taskId"))
        /\ UNCHANGED idVars
     \/ /\ taskId' = TaskOfJob(trace[Len(trace)].job)
        /\ videoId' = videoId
        /\ StartPolling(TranscriptTargets)
        /\ Proceed("awaitStatus", JobCall("status", videoId, taskId'))
  /\ UNCHANGED <<pipeVars, fsVars>>

(* --------------------------- waitForTaskStatus ------------------------- *)
IsTargetNever(payload, targets) == FALSE

IsTargetOfAnyPhase(payload, targets) ==
  payload.status \in {"transcriptionCompleted", "completed"}

\* targetStatuses.includes(status.status)
IsTarget(payload, targets) == payload.status \in targets

IsFailedIgnored(payload) == FALSE

IsFailedUnlessTarget(payload) == TRUE

\* status.status === "failed"
IsFailed(payload) == payload.status = "failed"

\* status.error ?? "unknown error"
FailureReason(payload) == IF payload.error = "none" THEN "unknown error" ELSE payload.error

\* the payloads the provider may send as answer number n of a polling phase
AnswersAt(n, job, targets) ==
  IF n < MaxProbes THEN StatusPayloads(job)
  ELSE {p \in StatusPayloads(job) : p.status \in targets \cup {"failed"}}

\* GET /videos/{videoId}/task/{taskId} answered
StatusResponse ==
  /\ cpc = "awaitStatus"
  /\ \/ Catch(Err("network", attempt, "request failed"))
     \/ \E payload \in AnswersAt(probes + 1, trace[Len(trace)].job, targetStatuses) :
          IF IsTarget(payload, targetStatuses)
          THEN IF targetStatuses = TranscriptTargets
               THEN \* waitForTranscription, then loadTranscript
                    IF payload.transcript = NoUrl
                    THEN Catch(Err("provider", attempt, "no transcript URL"))
                    ELSE /\ transcriptUrl' = payload.transcript
                         /\ status' = payload /\ probes' = probes + 1
                         /\ Proceed("awaitTranscript", UrlCall("getTranscript", transcriptUrl'))
                         /\ UNCHANGED <<originalTranscript, correctedTranscript, downloadUrl,
                                        parsedItems, targetStatuses>>
               ELSE \* waitForCompletedVideo, then downloadFile
                    IF payload.downloadUrl = NoUrl
                    THEN Catch(Err("provider", attempt, "no download URL"))
                    ELSE /\ downloadUrl' = payload.downloadUrl
                         /\ status' = payload /\ probes' = probes + 1
                         /\ Proceed("awaitDownload", UrlCall("download", downloadUrl'))
                         /\ UNCHANGED <<originalTranscript, correctedTranscript, transcriptUrl,
                                        parsedItems, targetStatuses>>
          ELSE IF IsFailed(payload)
               THEN CatchWith(Err("taskFailed", attempt, FailureReason(payload)), payload)
               ELSE /\ status' = payload /\ probes' = probes + 1
                    /\ Proceed("awaitPollSleep", SleepCall(PollIntervalMs))
                    /\ UNCHANGED <<originalTranscript, correctedTranscript, transcriptUrl,
                                   downloadUrl, parsedItems, targetStatuses>>
  /\ UNCHANGED <<pipeVars, fsVars, idVars>>

\* sleep(2_000) of the polling loop ended: the next iteration sends a probe
PollSleepDone ==
  /\ cpc = "awaitPollSleep"
  /\ status' = NoStatus
  /\ Proceed("awaitStatus", JobCall("status", videoId, taskId))
  /\ UNCHANGED <<pipeVars, fsVars, idVars, transcriptUrl, originalTranscript,
                 correctedTranscript, downloadUrl, parsedItems, targetStatuses, probes>>

(* --------------------- loadTranscript, correctTranscript --------------- *)
\* axios.get(transcriptUrl) answered, with one of the transcripts in served
TranscriptLoaded(served) ==
  /\ cpc = "awaitTranscript"
  /\ \/ Catch(Err("network", attempt, "request failed"))
     \/ Catch(Err("provider", attempt, "transcript format is invalid"))
     \/ \E transcript \in served :
          /\ originalTranscript' = transcript
          /\ Proceed("awaitCorrection", CorrectCall(compactTranscript(transcript)))
          /\ UNCHANGED <<transcriptUrl, correctedTranscript, downloadUrl, parsedItems,
                         targetStatuses, status, probes>>
  /\ UNCHANGED <<pipeVars, fsVars, idVars>>

TranscriptResponse == TranscriptLoaded(Transcripts)

\* openAIClient.responses.create answered, with one of the lists in answers
CorrectionAnswered(answers) ==
  /\ cpc = "awaitCorrection"
  /\ \/ Catch(Err("network", attempt, "request failed"))
     \/ Catch(Err("correction", attempt, "no corrected transcript returned"))
     \/ Catch(Err("correction", attempt, "response format is invalid"))
     \/ \E correctedChunks \in answers :
          IF ShapeMatches(correctedChunks, compactTranscript(originalTranscript))
          THEN /\ correctedTranscript' = MergeFrom(originalTranscript, correctedChunks, 1)
               /\ parsedItems' = Returns(correctedChunks)
               /\ Proceed("awaitPut", JobCall("putTranscript", videoId, taskId))
               /\ UNCHANGED <<transcriptUrl, originalTranscript, downloadUrl, targetStatuses,
                              status, probes>>
          ELSE CatchKeeping(Err("correctionShape", attempt, "length does not match"),
                            NoStatus, Returns(correctedChunks))
  /\ UNCHANGED <<pipeVars, fsVars, idVars>>

CorrectionResponse == CorrectionAnswered(CorrectionItems)

(* ------------------- applyTranscript, approveTranscript ---------------- *)
\* PUT .../transcript answered
PutResponse ==
  /\ cpc = "awaitPut"
  /\ \/ Catch(Err("network", attempt, "request failed"))
     \/ /\ Proceed("awaitApprove", JobCall("approve", videoId, taskId))
        /\ UNCHANGED valueVars
  /\ UNCHANGED <<pipeVars, fsVars, idVars>>

\* POST .../approve-transcript answered
ApproveResponse ==
  /\ cpc = "awaitApprove"
  /\ \/ Catch(Err("network", attempt, "request failed"))
     \/ /\ StartPolling(CompletedTargets)
        /\ Proceed("awaitStatus", JobCall("status", videoId, taskId))
  /\ UNCHANGED <<pipeVars, fsVars, idVars>>

(* ------------------------------ downloadFile --------------------------- *)
\* createWriteStream(outputPath): the file is created or truncated on open
OpenedForWrite(file) == Partial

\* axios.get(url, stream) answered
DownloadResponse ==
  /\ cpc = "awaitDownload"
  /\ \/ /\ Catch(Err("network", attempt, "request failed"))
        /\ UNCHANGED outFile
     \/ /\ outFile' = [outFile EXCEPT ![outputPath] = OpenedForWrite(@)]
        /\ cpc' = "awaitPipeline"
        /\ UNCHANGED <<attempt, lastError, backoffs, result, trace, uploadsReceived, valueVars>>
  /\ UNCHANGED <<pipeVars, tmpFile, rendered, artifacts, idVars>>

\* pipeline(response.data, createWriteStream(outputPath)) settled; on success
\* downloadFile returns and resampleAudioIfNeeded starts ffprobe
PipelineDone ==
  /\ cpc = "awaitPipeline"
  /\ \/ /\ Catch(Err("network", attempt, "download stream failed"))
        /\ UNCHANGED outFile
     \/ \E rate \in ProviderRates :
          /\ outFile' = [outFile EXCEPT ![outputPath] = Complete(rate)]
          /\ Proceed("awaitFfprobe", Call("ffprobe"))
          /\ UNCHANGED valueVars
  /\ UNCHANGED <<pipeVars, tmpFile, rendered, artifacts, idVars>>

(* ------------------------- resampleAudioIfNeeded ----------------------- *)
RateNeverMatches(sampleRate, targetRate) == FALSE

\* sampleRate === targetRate
RateMatches(sampleRate, targetRate) == sampleRate = targetRate

FallThrough ==
  /\ EnterLoop(attempt + 1, lastError)
  /\ UNCHANGED <<lastError, backoffs, valueVars>>

\* an attempt ran to the end of the try block: return outputPath
ReturnOutputPath ==
  /\ cpc' = "returned"
  /\ result' = Returned(outputPath)
  /\ UNCHANGED <<attempt, lastError, backoffs, trace, uploadsReceived, valueVars>>

FfprobeDoneEncodingInPlace ==
  /\ cpc = "awaitFfprobe"
  /\ \/ /\ Catch(Err("mediaProbe", attempt, "ffprobe exited with an error"))
        /\ UNCHANGED <<tmpFile, outFile>>
     \/ /\ outFile[outputPath].rate = 0
        /\ Catch(Err("mediaProbe", attempt, "sample_rate was not found"))
        /\ UNCHANGED <<tmpFile, outFile>>
     \/ /\ outFile[outputPath].rate # 0
        /\ IF RateMatches(outFile[outputPath].rate, TargetRate)
           THEN /\ ReturnOutputPath
                /\ UNCHANGED <<tmpFile, outFile>>
           ELSE /\ outFile' = [outFile EXCEPT ![outputPath] = Partial]
                /\ tmpFile' = Partial
                /\ Proceed("awaitFfmpeg", Call("ffmpeg"))
                /\ UNCHANGED valueVars
  /\ UNCHANGED <<pipeVars, rendered, artifacts, idVars>>

\* ffprobe of getAudioSampleRate exited
FfprobeDone ==
  /\ cpc = "awaitFfprobe"
  /\ \/ /\ Catch(Err("mediaProbe", attempt, "ffprobe exited with an error"))
        /\ UNCHANGED tmpFile
     \/ /\ outFile[outputPath].rate = 0
        /\ Catch(Err("mediaProbe", attempt, "sample_rate was not found"))
        /\ UNCHANGED tmpFile
     \/ /\ outFile[outputPath].rate # 0
        /\ IF RateMatches(outFile[outputPath].rate, TargetRate)
           THEN /\ ReturnOutputPath
                /\ UNCHANGED tmpFile
           ELSE \* ffmpeg -y starts writing the temporary sibling file
                /\ tmpFile' = Partial
                /\ Proceed("awaitFfmpeg", Call("ffmpeg"))
                /\ UNCHANGED valueVars
  /\ UNCHANGED <<pipeVars, outFile, rendered, artifacts, idVars>>

\* ffmpeg exited
FfmpegDone ==
  /\ cpc = "awaitFfmpeg"
  /\ \/ /\ Catch(Err("mediaEncode", attempt, "ffmpeg exited with an error"))
        /\ UNCHANGED tmpFile
     \/ /\ tmpFile' = Complete(TargetRate)
        /\ Proceed("awaitUnlink", Call("unlink"))
        /\ UNCHANGED valueVars
  /\ UNCHANGED <<pipeVars, outFile, rendered, artifacts, idVars>>

\* unlink(filePath) settled
UnlinkDone ==
  /\ cpc = "awaitUnlink"
  /\ \/ /\ Catch(Err("fileSystem", attempt, "unlink failed"))
        /\ UNCHANGED outFile
     \/ /\ outFile' = [outFile EXCEPT ![outputPath] = Absent]
        /\ Proceed("awaitRename", Call("rename"))
        /\ UNCHANGED valueVars
  /\ UNCHANGED <<pipeVars, tmpFile, rendered, artifacts, idVars>>

\* rename(temporaryOutputPath, filePath) settled
RenameDone ==
  /\ cpc = "awaitRename"
  /\ \/ /\ Catch(Err("fileSystem", attempt, "rename failed"))
        /\ UNCHANGED <<outFile, tmpFile>>
     \/ /\ outFile' = [outFile EXCEPT ![outputPath] = tmpFile]
        /\ tmpFile' = Absent
        /\ ReturnOutputPath
  /\ UNCHANGED <<pipeVars, rendered, artifacts, idVars>>

(* --------------------- VideoPipeline.run / processVideo ---------------- *)
\* no caption request frame exists after this step
CaptionCleared ==
  /\ cpc' = "idle" /\ attempt' = 0 /\ lastError' = Undefined
  /\ backoffs' = <<>> /\ result' = NoResult
  /\ videoId' = NoId /\ taskId' = NoId
  /\ ScopeExit /\ status' = NoStatus /\ parsedItems' = NoItems
  /\ uploadsReceived' = 0 /\ trace' = <<>>

\* an error left processVideo and run: main().catch sets the exit code
Fatal(stage) ==
  /\ ppc' = "fatal"
  /\ failedStage' = stage
  /\ UNCHANGED <<inputVars, peer, avail, maxRetryAttempts, vi, li, stages>>

\* processVideo goes on to its next await: pc, with the loop index k and the
\* stages invoked so far
Continue(pc, k, invoked) ==
  /\ ppc' = pc /\ li' = k /\ stages' = invoked
  /\ UNCHANGED <<inputVars, peer, avail, maxRetryAttempts, vi, failedStage>>

\* the files of the pipeline stages, as the existence check sees them
ArtifactFile(kind, lang) ==
  IF <<videoIdNow, kind, lang>> \in artifacts THEN Complete(0) ELSE Absent
RenderedFile == IF rendered[outputPath] THEN Complete(0) ELSE Absent

\* the stage of the current await made its output file
Written(kind, lang) == artifacts' = artifacts \cup {<<videoIdNow, kind, lang>>}

\* new VideoPipeline(): the field initializers construct the services in
\* order; the first required variable that is missing or blank throws
Construct ==
  /\ ppc = "start"
  /\ IF FirstMissing(env) # 0
     THEN Fatal(ConstructorReads[FirstMissing(env)].fails)
     ELSE /\ maxRetryAttempts' = maxRetryAttemptsOf(retryEnv)
          /\ ppc' = "awaitSetup"
          /\ UNCHANGED <<inputVars, peer, avail, vi, li, failedStage, stages>>
  /\ UNCHANGED <<texts, fsVars, localVars, loopVars, uploadsReceived, trace>>

\* loadVideoSetup settled; extractScreenshot is called and checks its file
SetupLoaded ==
  /\ ppc = "awaitSetup"
  /\ \/ Fatal("setup")
     \/ Continue("awaitScreenshotExists", 1, Append(stages, Stage("screenshot", NoLanguage)))
  /\ UNCHANGED <<texts, fsVars, localVars, loopVars, uploadsReceived, trace>>

\* extractScreenshot: fileExists(screenshotPath) answered
ScreenshotGate ==
  /\ ppc = "awaitScreenshotExists"
  /\ IF fileExists(ArtifactFile("screenshot", NoLanguage))
     THEN Continue("awaitInputs", 1, stages)
     ELSE Continue("awaitScreenshot", 1, MarkRan(stages))
  /\ UNCHANGED <<texts, fsVars, localVars, loopVars, uploadsReceived, trace>>

\* ffmpeg's screenshot run settled
ScreenshotDone ==
  /\ ppc = "awaitScreenshot"
  /\ \/ /\ Fatal("screenshot")
        /\ UNCHANGED artifacts
     \/ /\ Written("screenshot", NoLanguage)
        /\ Continue("awaitInputs", 1, stages)
  /\ UNCHANGED <<texts, outFile, tmpFile, rendered, localVars, loopVars, uploadsReceived, trace>>

\* toBase64(screenshotPath) and readTextFile(originalTextPath) settled;
\* generateTexts is called and checks its file
InputsRead ==
  /\ ppc = "awaitInputs"
  /\ \/ Fatal("inputs")
     \/ Continue("awaitTextsExists", 1, Append(stages, Stage("texts", NoLanguage)))
  /\ UNCHANGED <<texts, fsVars, localVars, loopVars, uploadsReceived, trace>>

\* generateVoiceovers at index k of its loop, with generatedTexts = have:
\* after the last language uploadVideoAssets is called
InvokeVoiceover(k, invoked, have) ==
  IF k > Len(languages)
  THEN Continue("awaitAssets", 1, Append(invoked, Stage("assets", NoLanguage)))
  ELSE IF ~HasGeneratedText(have, languages[k])
       THEN Fatal("voiceover")
       ELSE Continue("awaitVoiceoverExists", k, Append(invoked, Stage("voiceover", languages[k])))

MusicAlways(setup) == TRUE

\* if (setup.backgroundMusic)
MusicEnabled(setup) == setup.backgroundMusic

\* generateTexts returned have: selectTrack if the setup asks for music, then
\* generateVoiceovers
AfterTexts(invoked, have) ==
  IF MusicEnabled(setups[videoIdNow])
  THEN Continue("awaitMusicExists", 1, Append(invoked, Stage("music", NoLanguage)))
  ELSE InvokeVoiceover(1, invoked, have)

\* generateTexts: fileExists(outputPath) answered; an existing file is read
\* and parsed
TextsGate ==
  /\ ppc = "awaitTextsExists"
  /\ IF fileExists(ArtifactFile("texts", NoLanguage))
     THEN \/ Fatal("texts") /\ texts' = texts
          \/ \E have \in GeneratedTextsChoices(languages) :
               texts' = have /\ AfterTexts(stages, have)
     ELSE Continue("awaitTexts", 1, MarkRan(stages)) /\ texts' = texts
  /\ UNCHANGED <<fsVars, localVars, loopVars, uploadsReceived, trace>>

\* generateTexts: the model answered; the texts are written to the file
TextsDone ==
  /\ ppc = "awaitTexts"
  /\ \/ /\ Fatal("texts")
        /\ UNCHANGED <<texts, artifacts>>
     \/ \E have \in GeneratedTextsChoices(languages) :
          /\ texts' = have
          /\ Written("texts", NoLanguage)
          /\ AfterTexts(stages, have)
  /\ UNCHANGED <<outFile, tmpFile, rendered, localVars, loopVars, uploadsReceived, trace>>

\* selectTrack: fileExists(outputPath) answered
MusicGate ==
  /\ ppc = "awaitMusicExists"
  /\ IF fileExists(ArtifactFile("music", NoLanguage))
     THEN \/ Fatal("music")
          \/ InvokeVoiceover(1, stages, texts)
     ELSE Continue("awaitMusic", 1, MarkRan(stages))
  /\ UNCHANGED <<texts, fsVars, localVars, loopVars, uploadsReceived, trace>>

\* selectTrack: the model answered; the selection is written to the file
MusicDone ==
  /\ ppc = "awaitMusic"
  /\ \/ /\ Fatal("music")
        /\ UNCHANGED artifacts
     \/ /\ Written("music", NoLanguage)
        /\ InvokeVoiceover(1, stages, texts)
  /\ UNCHANGED <<texts, outFile, tmpFile, rendered, localVars, loopVars, uploadsReceived, trace>>

\* generateVoiceover: fileExists(outputPath) answered
VoiceoverGate ==
  /\ ppc = "awaitVoiceoverExists"
  /\ IF fileExists(ArtifactFile("voiceover", language))
     THEN InvokeVoiceover(li + 1, stages, texts)
     ELSE IF HasVoiceMakerCode(language)
          THEN Continue("awaitVoiceover", li, MarkRan(stages))
          ELSE Fatal("voiceover")
  /\ UNCHANGED <<texts, fsVars, localVars, loopVars, uploadsReceived, trace>>

\* generateVoiceover: the synthesis request and the download settled
VoiceoverDone ==
  /\ ppc = "awaitVoiceover"
  /\ \/ /\ Fatal("voiceover")
        /\ UNCHANGED artifacts
     \/ /\ Written("voiceover", language)
        /\ InvokeVoiceover(li + 1, stages, texts)
  /\ UNCHANGED <<texts, outFile, tmpFile, rendered, localVars, loopVars, uploadsReceived, trace>>

\* uploadVideoAssets settled; the language loop calls renderLanguageVideo
\* for the first language, which checks its file
AssetsUploaded ==
  /\ ppc = "awaitAssets"
  /\ \/ Fatal("assets")
     \/ Continue("awaitRenderExists", 1, Append(stages, Stage("render", languages[1])))
  /\ UNCHANGED <<texts, fsVars, localVars, loopVars, uploadsReceived, trace>>

\* renderLanguageVideo returned: the text of the language is looked up and
\* createCaptionedVideo is called, which suspends on fileExists(outputPath)
InvokeCaption(invoked) ==
  IF ~HasGeneratedText(texts, language)
  THEN Fatal("caption text") /\ UNCHANGED <<cpc, tmpFile>>
  ELSE /\ Continue("inCaption", li, Append(invoked, Stage("caption", language)))
       /\ cpc' = "awaitFileExists"
       /\ tmpFile' = Absent

\* renderLanguageVideo: fileExists(outputPath) answered
RenderGate ==
  /\ ppc = "awaitRenderExists"
  /\ IF fileExists(RenderedFile)
     THEN InvokeCaption(stages)
     ELSE Continue("awaitRender", li, MarkRan(stages)) /\ UNCHANGED <<cpc, tmpFile>>
  /\ UNCHANGED <<texts, outFile, rendered, artifacts, localVars, attempt, lastError, backoffs,
                 result, uploadsReceived, trace>>

\* renderLanguageVideo: the render and the download of its output settled
RenderDone ==
  /\ ppc = "awaitRender"
  /\ \/ /\ Fatal("render")
        /\ UNCHANGED <<rendered, cpc, tmpFile>>
     \/ /\ rendered' = [rendered EXCEPT ![outputPath] = TRUE]
        /\ InvokeCaption(stages)
  /\ UNCHANGED <<texts, outFile, artifacts, localVars, attempt, lastError, backoffs, result,
                 uploadsReceived, trace>>

\* after the caption request of the current language: the render of the next
\* language, or logVideoSummary and the next video, or the end of run
NextLanguage ==
  IF li < Len(languages)
  THEN /\ li' = li + 1 /\ ppc' = "awaitRenderExists" /\ vi' = vi
       /\ stages' = Append(stages, Stage("render", languages[li + 1]))
       /\ texts' = texts
  ELSE IF vi < Len(VideoIds)
       THEN /\ vi' = vi + 1 /\ li' = 1 /\ ppc' = "awaitSetup"
            /\ stages' = <<>> /\ texts' = {}
       ELSE /\ ppc' = "done" /\ UNCHANGED <<vi, li>>
            /\ stages' = Append(stages, Stage("summary", NoLanguage))
            /\ texts' = texts

CaptionNotAwaited == cpc # "idle"

\* await this.captionService.createCaptionedVideo(...): the promise resolved
CaptionSettled == cpc = "returned"

\* the caller's continuation after createCaptionedVideo returned
CaptionReturned ==
  /\ ppc = "inCaption" /\ CaptionSettled
  /\ NextLanguage
  /\ CaptionCleared
  /\ UNCHANGED <<inputVars, peer, avail, maxRetryAttempts, failedStage, fsVars>>

CaptionThrewIsolated ==
  /\ ppc = "inCaption" /\ cpc = "threw"
  /\ NextLanguage
  /\ CaptionCleared
  /\ UNCHANGED <<inputVars, peer, avail, maxRetryAttempts, failedStage, fsVars>>

\* the caller's continuation after createCaptionedVideo threw: processVideo
\* has no handler around the call, nor has run
CaptionThrew ==
  /\ ppc = "inCaption" /\ cpc = "threw"
  /\ Fatal("caption")
  /\ CaptionCleared
  /\ UNCHANGED <<texts, fsVars>>

\* the awaits of processVideo
PipelineAwaits ==
  {"awaitSetup", "awaitScreenshotExists", "awaitScreenshot", "awaitInputs",
   "awaitTextsExists", "awaitTexts", "awaitMusicExists", "awaitMusic",
   "awaitVoiceoverExists", "awaitVoiceover", "awaitAssets", "awaitRenderExists",
   "awaitRender", "inCaption"}

\* the process is killed while it is suspended on an await
Interrupt ==
  /\ ppc \in PipelineAwaits
  /\ cpc \notin {"returned", "threw"}
  /\ ppc' = "killed"
  /\ CaptionCleared
  /\ UNCHANGED <<inputVars, peer, avail, maxRetryAttempts, vi, li, failedStage, texts, stages, fsVars>>

Next ==
  \/ Construct \/ SetupLoaded \/ ScreenshotGate \/ ScreenshotDone \/ InputsRead
  \/ TextsGate \/ TextsDone \/ MusicGate \/ MusicDone \/ VoiceoverGate \/ VoiceoverDone
  \/ AssetsUploaded \/ RenderGate \/ RenderDone
  \/ GateResponse \/ BackoffDone \/ UploadResponse \/ CreateTaskResponse
  \/ StatusResponse \/ PollSleepDone \/ TranscriptResponse \/ CorrectionResponse
  \/ PutResponse \/ ApproveResponse \/ DownloadResponse \/ PipelineDone
  \/ FfprobeDone \/ FfmpegDone \/ UnlinkDone \/ RenameDone
  \/ CaptionReturned \/ CaptionThrew \/ Interrupt

Spec == Init /\ [][Next]_vars

(* ------------- correctTranscript over all small inputs ------------------ *)
\* the only attempt of a request for the first language of the first video is
\* suspended on the fetch of the transcript
MergeInit ==
  /\ retryEnv = <<"1", "x">>
  /\ env = [n \in RequiredNames |-> <<"k">>]
  /\ setups \in SetupChoices
  /\ languages = <<"ENGLISH", "RUSSIAN">>
  /\ maxRetryAttempts = maxRetryAttemptsOf(retryEnv)
  /\ ppc = "inCaption" /\ vi = 1 /\ li = 1 /\ failedStage = "none"
  /\ texts = {"ENGLISH", "RUSSIAN"}
  /\ peer = NoPeer /\ avail = NoWait
  /\ stages = << MarkRan(<<Stage("screenshot", NoLanguage)>>)[1],
                 MarkRan(<<Stage("texts", NoLanguage)>>)[1],
                 MarkRan(<<Stage("music", NoLanguage)>>)[1],
                 MarkRan(<<Stage("voiceover", "ENGLISH")>>)[1],
                 MarkRan(<<Stage("voiceover", "RUSSIAN")>>)[1],
                 Stage("assets", NoLanguage),
                 MarkRan(<<Stage("render", "ENGLISH")>>)[1],
                 MarkRan(<<Stage("caption", "ENGLISH")>>)[1] >>
  /\ artifacts = {<<VideoIds[1], "screenshot", NoLanguage>>, <<VideoIds[1], "texts", NoLanguage>>,
                  <<VideoIds[1], "music", NoLanguage>>,
                  <<VideoIds[1], "voiceover", "ENGLISH">>, <<VideoIds[1], "voiceover", "RUSSIAN">>}
  /\ outFile = [p \in Paths |-> Absent]
  /\ tmpFile = Absent
  /\ rendered = [p \in Paths |-> p = <<VideoIds[1], "ENGLISH">>]
  /\ cpc = "awaitTranscript" /\ attempt = 1 /\ lastError = Undefined
  /\ backoffs = <<>> /\ result = NoResult
  /\ videoId = JobOfUpload(1) /\ taskId = TaskOfJob(JobOfUpload(1))
  /\ transcriptUrl = TranscriptUrlOf(JobOfUpload(1))
  /\ originalTranscript = NoTranscript /\ correctedTranscript = NoTranscript
  /\ downloadUrl = NoUrl /\ parsedItems = NoItems
  /\ targetStatuses = TranscriptTargets /\ probes = 1
  /\ status = [status |-> "transcriptionCompleted", error |-> "none",
               transcript |-> TranscriptUrlOf(JobOfUpload(1)), downloadUrl |-> NoUrl]
  /\ uploadsReceived = 1
  /\ trace = <<Call("upload"), JobCall("createTask", 1, NoId), JobCall("status", 1, 1),
               UrlCall("getTranscript", TranscriptUrlOf(1))>>

WideTranscriptResponse == TranscriptLoaded(WideTranscripts)

WideCorrectionResponse == CorrectionAnswered(WideItems)

MergeNext == WideTranscriptResponse \/ WideCorrectionResponse

SpecMerge == MergeInit /\ [][MergeNext]_vars

(* ------- two invocations of createCaptionedVideo for one outputPath ------ *)
\* A second process runs the same command on the same workspace and is in
\* createCaptionedVideo for the same language of the same video. Its frame is
\* the record peer; the files are the ones of this process.

\* the awaits of an attempt, in the order of the try block
PeerPhases ==
  <<"awaitUpload", "awaitCreateTask", "awaitStatus", "awaitTranscript", "awaitCorrection",
    "awaitPut", "awaitApprove", "awaitCompleted", "awaitDownload", "awaitPipeline",
    "awaitFfprobe", "awaitFfmpeg", "awaitUnlink", "awaitRename">>
PeerPhaseSet == {PeerPhases[i] : i \in 1..Len(PeerPhases)}
PhaseAfter(pc) == PeerPhases[(CHOOSE i \in 1..Len(PeerPhases) : PeerPhases[i] = pc) + 1]

\* the provider gives the uploads of the other process identifiers of their own
PeerJobOfUpload(n) == 10 + n

\* the loop test of the other invocation with attempt = n
PeerEnterLoop(n) ==
  IF LoopContinues(n, maxRetryAttempts)
  THEN [pc |-> "awaitUpload", attempt |-> n, job |-> NoId]
  ELSE [pc |-> "threw", attempt |-> n, job |-> NoId]

\* the catch block of the other invocation
PeerCatch ==
  IF SleepsAfter(peer.attempt, maxRetryAttempts)
  THEN [pc |-> "awaitBackoff", attempt |-> peer.attempt, job |-> NoId]
  ELSE PeerEnterLoop(peer.attempt + 1)

PeerProceeds == [peer EXCEPT !.pc = PhaseAfter(peer.pc)]

PeerKeeps ==
  UNCHANGED <<inputVars, avail, maxRetryAttempts, ppc, vi, li, failedStage, texts, stages,
              rendered, artifacts, localVars, loopVars, uploadsReceived, trace>>

\* the other invocation: fileExists(outputPath) answered
PeerGate ==
  /\ peer.pc = "awaitFileExists"
  /\ peer' = IF fileExists(outFile[outputPath])
             THEN [pc |-> "returned", attempt |-> 0, job |-> NoId]
             ELSE PeerEnterLoop(1)
  /\ PeerKeeps /\ UNCHANGED <<outFile, tmpFile>>

\* the other invocation: the backoff sleep ended
PeerBackoffDone ==
  /\ peer.pc = "awaitBackoff"
  /\ peer' = PeerEnterLoop(peer.attempt + 1)
  /\ PeerKeeps /\ UNCHANGED <<outFile, tmpFile>>

\* the other invocation: a call to the provider or to the correction model
\* settled (a probe answered with a status that keeps the loop polling leaves
\* the invocation where it is)
PeerRemote ==
  /\ peer.pc \in {"awaitUpload", "awaitCreateTask", "awaitStatus", "awaitTranscript",
                  "awaitCorrection", "awaitPut", "awaitApprove", "awaitCompleted"}
  /\ \/ peer' = PeerCatch
     \/ /\ peer.pc = "awaitUpload"
        /\ peer' = IF HasZapcapCode(language)
                   THEN [PeerProceeds EXCEPT !.job = BindJob(peer.job, PeerJobOfUpload(peer.attempt))]
                   ELSE PeerCatch
     \/ /\ peer.pc # "awaitUpload"
        /\ peer' = PeerProceeds
  /\ PeerKeeps /\ UNCHANGED <<outFile, tmpFile>>

\* the other invocation: downloadFile opened outputPath, or its stream ended
PeerDownload ==
  /\ peer.pc \in {"awaitDownload", "awaitPipeline"}
  /\ \/ peer' = PeerCatch /\ UNCHANGED outFile
     \/ /\ peer.pc = "awaitDownload"
        /\ outFile' = [outFile EXCEPT ![outputPath] = OpenedForWrite(@)]
        /\ peer' = PeerProceeds
     \/ /\ peer.pc = "awaitPipeline"
        /\ \E rate \in ProviderRates :
             outFile' = [outFile EXCEPT ![outputPath] = Complete(rate)]
        /\ peer' = PeerProceeds
  /\ PeerKeeps /\ UNCHANGED tmpFile

\* the other invocation: a step of resampleAudioIfNeeded settled
PeerNormalize ==
  /\ peer.pc \in {"awaitFfprobe", "awaitFfmpeg", "awaitUnlink", "awaitRename"}
  /\ \/ peer' = PeerCatch /\ UNCHANGED <<outFile, tmpFile>>
     \/ /\ peer.pc = "awaitFfprobe" /\ outFile[outputPath].rate # 0
        /\ IF RateMatches(outFile[outputPath].rate, TargetRate)
           THEN peer' = [peer EXCEPT !.pc = "returned"] /\ UNCHANGED <<outFile, tmpFile>>
           ELSE peer' = PeerProceeds /\ tmpFile' = Partial /\ UNCHANGED outFile
     \/ /\ peer.pc = "awaitFfmpeg" /\ Exists(outFile[outputPath])
        /\ peer' = PeerProceeds /\ tmpFile' = Complete(TargetRate) /\ UNCHANGED outFile
     \/ /\ peer.pc = "awaitUnlink" /\ Exists(outFile[outputPath])
        /\ peer' = PeerProceeds
        /\ outFile' = [outFile EXCEPT ![outputPath] = Absent] /\ UNCHANGED tmpFile
     \/ /\ peer.pc = "awaitRename" /\ Exists(tmpFile)
        /\ peer' = [peer EXCEPT !.pc = "returned"]
        /\ outFile' = [outFile EXCEPT ![outputPath] = tmpFile] /\ tmpFile' = Absent
  /\ PeerKeeps

\* both processes have just called createCaptionedVideo for the first
\* language of the first video, whose earlier stages are done
TwoInit ==
  /\ retryEnv = <<"2">>
  /\ env = [n \in RequiredNames |-> <<"k">>]
  /\ setups \in SetupChoices
  /\ languages = <<"ENGLISH", "RUSSIAN">>
  /\ maxRetryAttempts = maxRetryAttemptsOf(retryEnv)
  /\ ppc = "inCaption" /\ vi = 1 /\ li = 1 /\ failedStage = "none"
  /\ texts = {"ENGLISH", "RUSSIAN"}
  /\ stages = << Stage("screenshot", NoLanguage), Stage("texts", NoLanguage),
                 Stage("music", NoLanguage), Stage("voiceover", "ENGLISH"),
                 Stage("voiceover", "RUSSIAN"), Stage("assets", NoLanguage),
                 Stage("render", "ENGLISH"), Stage("caption", "ENGLISH") >>
  /\ artifacts = FinishedArtifacts(languages, setups[VideoIds[1]])
  /\ outFile = [p \in Paths |-> Absent]
  /\ tmpFile = Absent
  /\ rendered = [p \in Paths |-> p = <<VideoIds[1], "ENGLISH">>]
  /\ cpc = "awaitFileExists" /\ attempt = 0 /\ lastError = Undefined
  /\ backoffs = <<>> /\ result = NoResult
  /\ videoId = NoId /\ taskId = NoId /\ transcriptUrl = NoUrl
  /\ originalTranscript = NoTranscript /\ correctedTranscript = NoTranscript
  /\ downloadUrl = NoUrl /\ parsedItems = NoItems
  /\ targetStatuses = {} /\ status = NoStatus /\ probes = 0
  /\ uploadsReceived = 0 /\ trace = <<>>
  /\ peer = [pc |-> "awaitFileExists", attempt |-> 0, job |-> NoId]
  /\ avail = NoWait

TwoNext ==
  \/ GateResponse \/ BackoffDone \/ UploadResponse \/ CreateTaskResponse
  \/ StatusResponse \/ PollSleepDone \/ TranscriptResponse \/ CorrectionResponse
  \/ PutResponse \/ ApproveResponse \/ DownloadResponse \/ PipelineDone
  \/ FfprobeDone \/ FfmpegDone \/ UnlinkDone \/ RenameDone
  \/ PeerGate \/ PeerBackoffDone \/ PeerRemote \/ PeerDownload \/ PeerNormalize

SpecTwo == TwoInit /\ [][TwoNext]_vars

(* ------------------------ waitForUrlAvailability ------------------------ *)
\* the parameters of a call: maxAttempts (default 60) and intervalMs
\* (default 10 000), here small values, zero included
UrlWaitCalls ==
  { [NoWait EXCEPT !.pc = "called", !.maxAttempts = m, !.intervalMs = ms] :
      m \in 0..MaxUrlAttempts, ms \in {0, 500, 10000} }

\* the loop test with attempt = n: the body sends the HEAD request, or the
\* loop is left and the function returns
UrlLoopTest(w, n) ==
  IF n <= w.maxAttempts
  THEN [w EXCEPT !.pc = "awaitHead", !.attempt = n, !.probes = w.probes + 1]
  ELSE [w EXCEPT !.pc = "resolved", !.attempt = n]

\* nothing but the frame of waitForUrlAvailability changes
UrlKeeps ==
  UNCHANGED <<inputVars, peer, maxRetryAttempts, ppc, vi, li, failedStage, texts, stages,
              fsVars, localVars, loopVars, uploadsReceived, trace>>

\* waitForUrlAvailability was called: the loop starts with attempt = 1
UrlWaitStarts ==
  /\ avail.pc = "called"
  /\ avail' = UrlLoopTest(avail, 1)
  /\ UrlKeeps

\* axios.head settled: return on success; in the catch block throw if this
\* was attempt maxAttempts, else sleep
HeadResponse ==
  /\ avail.pc = "awaitHead"
  /\ \/ avail' = [avail EXCEPT !.pc = "resolved", !.succeeded = TRUE]
     \/ avail' = IF avail.attempt = avail.maxAttempts
                 THEN [avail EXCEPT !.pc = "threw"]
                 ELSE [avail EXCEPT !.pc = "awaitSleep",
                                    !.sleeps = Append(avail.sleeps, avail.intervalMs)]
  /\ UrlKeeps

\* sleep(intervalMs) ended: the loop's increment and test
UrlSleepDone ==
  /\ avail.pc = "awaitSleep"
  /\ avail' = UrlLoopTest(avail, avail.attempt + 1)
  /\ UrlKeeps

\* a process that only calls waitForUrlAvailability
UrlInit ==
  /\ retryEnv = <<>>
  /\ env = [n \in RequiredNames |-> <<"k">>]
  /\ setups \in SetupChoices
  /\ languages = <<"ENGLISH", "RUSSIAN">>
  /\ maxRetryAttempts = Unassigned
  /\ ppc = "start" /\ vi = 1 /\ li = 1 /\ failedStage = "none"
  /\ texts = {} /\ stages = <<>>
  /\ peer = NoPeer
  /\ outFile = [p \in Paths |-> Absent] /\ rendered = [p \in Paths |-> FALSE]
  /\ artifacts = {} /\ tmpFile = Absent
  /\ CaptionIdle
  /\ avail \in UrlWaitCalls

UrlNext == UrlWaitStarts \/ HeadResponse \/ UrlSleepDone

SpecUrl == UrlInit /\ [][UrlNext]_vars

(* ------------------------------ properties ----------------------------- *)
Last(s) == s[Len(s)]
\* createCaptionedVideo is inside an attempt of its loop
InAttempt ==
  cpc \in {"awaitUpload", "awaitCreateTask", "awaitStatus", "awaitPollSleep",
           "awaitTranscript", "awaitCorrection", "awaitPut", "awaitApprove",
           "awaitDownload", "awaitPipeline", "awaitFfprobe", "awaitFfmpeg",
           "awaitUnlink", "awaitRename"}
\* the configured limit is a count of attempts
LimitIsCount == ~maxRetryAttempts.nan /\ maxRetryAttempts.val >= 0

\* C1: when the existence check finds a file at outputPath, the call returns
\* outputPath without having started any external operation (no upload, hence
\* no attempt, no sleep) and with the file and its temporary sibling untouched.
C1_IdempotencyGate ==
  [][(cpc = "awaitFileExists" /\ Exists(outFile[outputPath]))
       => /\ trace' = <<>> /\ uploadsReceived' = 0 /\ backoffs' = <<>>
          /\ outFile' = outFile /\ tmpFile' = tmpFile
          /\ \/ cpc' = "returned" /\ result' = Returned(outputPath) /\ attempt' = 0
             \/ ppc' = "killed"]_vars

C1_Witness ==
  /\ cpc = "returned" /\ attempt = 0 /\ result = Returned(outputPath)
  /\ Exists(outFile[outputPath]) /\ trace = <<>>

\* C2: with a limit that is a count, never more uploads are sent than the
\* limit; inside an attempt the number of uploads equals the attempt number
\* and the attempt's first operation is its one upload; and when the
\* aggregated error is thrown exactly maxAttempts uploads were sent.
C2_RetryBound ==
  LimitIsCount =>
    /\ uploadsReceived <= maxRetryAttempts.val
    /\ InAttempt =>
         /\ uploadsReceived = attempt
         /\ trace[1] = Call("upload")
         /\ \A i \in 2..Len(trace) : trace[i].op # "upload"
    /\ cpc = "threw" =>
         /\ uploadsReceived = maxRetryAttempts.val
         /\ attempt = maxRetryAttempts.val + 1

C2_Witness == cpc = "threw" /\ uploadsReceived = 3 /\ maxRetryAttempts = Num(3)

C4_CompletionOnlyIdempotency ==
  cpc \in {"awaitBackoff", "threw"} => ~Exists(outFile[outputPath])

\* the operations that may directly follow an operation inside one attempt;
\* approved tells whether approveTranscript was already started
MayFollow(op, approved) ==
  CASE op = "upload" -> {"createTask"}
    [] op = "createTask" -> {"status"}
    [] op = "status" -> IF approved THEN {"pollSleep", "download"}
                        ELSE {"pollSleep", "getTranscript"}
    [] op = "pollSleep" -> {"status"}
    [] op = "getTranscript" -> {"correct"}
    [] op = "correct" -> {"putTranscript"}
    [] op = "putTranscript" -> {"approve"}
    [] op = "approve" -> {"status"}
    [] op = "download" -> {"ffprobe"}
    [] op = "ffprobe" -> {"ffmpeg"}
    [] op = "ffmpeg" -> {"unlink"}
    [] op = "unlink" -> {"rename"}
    [] OTHER -> {}

ApprovedBefore(i) == \E j \in 1..(i - 1) : trace[j].op = "approve"

\* C5: the operations an attempt has started are, in order, upload,
\* createTask, probes separated by sleeps, transcript fetch, correction,
\* putTranscript, approveTranscript, probes separated by sleeps, download,
\* then the normalization steps; putTranscript is only started with a
\* correction of matching length merged into the fetched transcript, download
\* only with the URL of a `completed` status; and a step of the attempt either
\* starts the one next operation or leaves the attempt.
C5_PhaseOrder ==
  /\ [](InAttempt =>
          /\ trace[1].op = "upload"
          /\ \A i \in 1..(Len(trace) - 1) :
               trace[i + 1].op \in MayFollow(trace[i].op, ApprovedBefore(i + 1))
          /\ cpc \in {"awaitPut", "awaitApprove"} =>
               \E items \in CorrectionItems :
                 /\ Len(items) = Len(SelectSeq(originalTranscript, HasText))
                 /\ correctedTranscript = MergeFrom(originalTranscript, items, 1)
          /\ cpc \in {"awaitDownload", "awaitPipeline"} =>
               /\ status.status = "completed"
               /\ Last(trace) = UrlCall("download", status.downloadUrl))
  /\ [][InAttempt =>
          \/ InAttempt' /\ trace' = trace
          \/ InAttempt' /\ Len(trace') = Len(trace) + 1 /\ SubSeq(trace', 1, Len(trace)) = trace
          \/ cpc' \in {"awaitBackoff", "threw", "returned"} /\ trace' = trace
          \/ ppc' = "killed" /\ trace' = <<>>]_vars

C5_Witness ==
  /\ cpc = "returned"
  /\ [i \in 1..Len(trace) |-> trace[i].op] =
       <<"upload", "createTask", "status", "pollSleep", "status", "getTranscript", "correct",
         "putTranscript", "approve", "status", "download", "ffprobe", "ffmpeg", "unlink",
         "rename">>

\* the job the provider created for the upload of the current attempt
JobOfAttempt == JobOfUpload(uploadsReceived)

\* C6: an attempt starts at the upload with no transcript, corrected
\* transcript, URL or status bound; the job of an attempt is one no earlier
\* attempt had; and every createTask, status probe, putTranscript, approve,
\* transcript fetch and download of an attempt names the job and task issued
\* in that attempt, or a URL the provider gave for that job.
C6_FreshJobPerAttempt ==
  InAttempt =>
    /\ JobOfAttempt = attempt
    /\ cpc = "awaitUpload" =>
         /\ trace = <<Call("upload")>>
         /\ transcriptUrl = NoUrl /\ downloadUrl = NoUrl
         /\ originalTranscript = NoTranscript /\ correctedTranscript = NoTranscript
    /\ cpc # "awaitUpload" => videoId = JobOfAttempt
    /\ cpc \notin {"awaitUpload", "awaitCreateTask"} => taskId = TaskOfJob(JobOfAttempt)
    /\ \A i \in 1..Len(trace) :
         /\ trace[i].job \in {NoId, JobOfAttempt}
         /\ trace[i].task \in {NoId, TaskOfJob(JobOfAttempt)}
         /\ trace[i].url \in {NoUrl, TranscriptUrlOf(JobOfAttempt), DownloadUrlOf(JobOfAttempt)}
         /\ trace[i].op \in {"createTask", "status", "putTranscript", "approve"}
              => trace[i].job = JobOfAttempt
         /\ trace[i].op \in {"status", "putTranscript", "approve"}
              => trace[i].task = TaskOfJob(JobOfAttempt)

C6_Witness ==
  /\ cpc = "awaitApprove" /\ attempt = 3
  /\ Last(trace) = JobCall("approve", 3, 3)

\* C7: the backoff sleeps of a request are 2000 ms x 1, 2000 ms x 2, ... in
\* this order: one after each failed attempt that is not the last. While
\* attempt n runs n - 1 sleeps were made, during the sleep after attempt n
\* there are n, and when the aggregated error is thrown after maxAttempts >= 1
\* failures there are maxAttempts - 1.
C7_LinearBackoff ==
  /\ \A i \in 1..Len(backoffs) : backoffs[i] = 2000 * i
  /\ \A i \in 1..(Len(backoffs) - 1) : backoffs[i] < backoffs[i + 1]
  /\ InAttempt => Len(backoffs) = attempt - 1
  /\ cpc = "awaitBackoff" => Len(backoffs) = attempt /\ Less(attempt, maxRetryAttempts)
  /\ (cpc = "threw" /\ uploadsReceived >= 1) => Len(backoffs) = maxRetryAttempts.val - 1

C7_Witness == cpc = "threw" /\ backoffs = <<2000, 4000>>

\* C8: when the loop ends without a success the call ends with one error
\* whose cause is lastError, which is the error of the last attempt started;
\* and once the call has ended its outcome does not change.
C8_AggregatedFailure ==
  /\ [](cpc = "threw" =>
          /\ result = Thrown(lastError)
          /\ uploadsReceived >= 1 =>
               /\ result.cause.attempt = uploadsReceived
               /\ result.cause.kind # "undefined")
  /\ [](InAttempt => result = NoResult)
  /\ [][result # NoResult => result' \in {result, NoResult}]_vars

C8_Witness ==
  /\ cpc = "threw" /\ uploadsReceived = 3
  /\ result.cause = Err("taskFailed", 3, "quota exceeded")

\* the step in which an attempt completes download and normalization: ffprobe
\* reports the target rate, or the re-encoded file is renamed into place
CompletesAttempt ==
  \/ /\ cpc = "awaitFfprobe" /\ outFile[outputPath] = Complete(44100)
     /\ lastError' = lastError /\ ppc' = "inCaption"
  \/ /\ cpc = "awaitRename" /\ outFile'[outputPath] = Complete(44100)

\* C9: the step that completes an attempt ends the call: it returns
\* outputPath, and neither starts an operation, nor sleeps, nor counts a
\* further attempt; a call that returned after n attempts made n uploads and
\* n - 1 backoff sleeps and left the normalized file at outputPath; the only
\* step after the return is the caller's continuation.
C9_SuccessStopsRetry ==
  /\ [][CompletesAttempt
          => /\ cpc' = "returned" /\ result' = Returned(outputPath)
             /\ trace' = trace /\ backoffs' = backoffs
             /\ attempt' = attempt /\ uploadsReceived' = uploadsReceived]_vars
  /\ []((cpc = "returned" /\ attempt >= 1) =>
          /\ result = Returned(outputPath)
          /\ uploadsReceived = attempt /\ Len(backoffs) = attempt - 1
          /\ Last(trace).op \in {"ffprobe", "rename"}
          /\ outFile[outputPath] = Complete(44100))
  /\ [][cpc = "returned" => cpc' = "idle" /\ ppc' # "killed" /\ outFile' = outFile]_vars

C9_Witness ==
  /\ cpc = "returned" /\ attempt = 2 /\ uploadsReceived = 2 /\ backoffs = <<2000>>
  /\ maxRetryAttempts = Num(3) /\ outFile[outputPath] = Complete(44100)

\* C10: a status probe answered `failed` (in either polling phase) ends the
\* attempt in that same step: lastError is the task failure with the provider's
\* reason ("unknown error" without one), no probe and no poll sleep is started
\* after it, the backoff before the next attempt follows if attempts remain
\* and the aggregated error otherwise.
C10_FailedShortCircuit ==
  [][(cpc = "awaitStatus" /\ status'.status = "failed")
       => /\ lastError' = Err("taskFailed", attempt,
                              IF status'.error = "none" THEN "unknown error" ELSE status'.error)
          /\ trace' = trace /\ Last(trace).op = "status"
          /\ uploadsReceived' = uploadsReceived
          /\ IF Less(attempt, maxRetryAttempts)
             THEN cpc' = "awaitBackoff" /\ backoffs' = Append(backoffs, 2000 * attempt)
             ELSE cpc' = "threw" /\ backoffs' = backoffs]_vars

C10_Witness ==
  /\ cpc = "awaitBackoff" /\ status.status = "failed" /\ lastError.kind = "taskFailed"
  /\ \E i \in 1..Len(trace) : trace[i].op = "approve"

SentTranscript == \E i \in 1..Len(trace) : trace[i].op \in {"putTranscript", "approve"}

\* C12: when the list the correction model returned has a length other than
\* the number of chunks with non-empty text, the step that consumes it fails
\* the attempt with the shape error: nothing is merged, no operation is
\* started, and no putTranscript or approve was or is sent in that attempt;
\* the backoff follows if attempts remain (the aggregated error otherwise), and
\* the step after the backoff starts the next attempt with its upload.
\* Conversely putTranscript is only ever sent with a list of matching length.
C12_CorrectionShapeCheck ==
  /\ [][(cpc = "awaitCorrection" /\ parsedItems'.given
           /\ Len(parsedItems'.items) # Len(SelectSeq(originalTranscript, HasText)))
          => /\ lastError' = Err("correctionShape", attempt, "length does not match")
             /\ correctedTranscript' = NoTranscript
             /\ trace' = trace /\ ~SentTranscript
             /\ uploadsReceived' = uploadsReceived
             /\ IF Less(attempt, maxRetryAttempts)
                THEN cpc' = "awaitBackoff" ELSE cpc' = "threw"]_vars
  /\ [][(cpc = "awaitBackoff" /\ lastError.kind = "correctionShape")
          => \/ /\ cpc' = "awaitUpload" /\ attempt' = attempt + 1
                /\ trace' = <<Call("upload")>> /\ uploadsReceived' = uploadsReceived + 1
             \/ ppc' = "killed"]_vars
  /\ []((InAttempt /\ SentTranscript) =>
          /\ parsedItems.given
          /\ Len(parsedItems.items) = Len(SelectSeq(originalTranscript, HasText)))

C12_Witness ==
  /\ cpc = "awaitUpload" /\ attempt = 2 /\ lastError.kind = "correctionShape"
  /\ parsedItems = Returns(<<>>)

\* the number of chunks with non-empty text among the first i chunks
TextRank(transcript, i) == Cardinality({j \in 1..i : HasText(transcript[j])})
\* every item has the text the requested schema requires
ItemsTyped(items) == \A k \in 1..Len(items) : items[k].text # NoText

\* C13: whenever correctTranscript returned (putTranscript is being sent with
\* its result), the result has the length of the transcript; chunk i keeps
\* its non-text fields, which number the chunks in their original order; a
\* chunk with absent or empty text is the input chunk; and chunk i with
\* non-empty text carries the text of item k, where k counts the chunks with
\* non-empty text up to i (for a response whose items all have a text).
C13_CorrectionMerge ==
  cpc = "awaitPut" =>
    LET items == parsedItems.items
    IN /\ parsedItems.given
       /\ Len(items) = Len(SelectSeq(originalTranscript, HasText))
       /\ Len(correctedTranscript) = Len(originalTranscript)
       /\ \A i \in 1..Len(originalTranscript) :
            /\ correctedTranscript[i].meta = originalTranscript[i].meta
            /\ correctedTranscript[i].meta = i
            /\ ~HasText(originalTranscript[i]) => correctedTranscript[i] = originalTranscript[i]
            /\ (HasText(originalTranscript[i]) /\ ItemsTyped(items)) =>
                 correctedTranscript[i].text = items[TextRank(originalTranscript, i)].text

C13_Witness ==
  /\ cpc = "awaitPut"
  /\ originalTranscript = <<Chunk("helo", 1), Chunk(NoText, 2), Chunk("wrold", 3)>>
  /\ parsedItems = Returns(<<Item("hello"), Item("world")>>)
  /\ correctedTranscript = <<Chunk("hello", 1), Chunk(NoText, 2), Chunk("world", 3)>>

\* C14 (as stated): a rewrite that succeeds leaves a complete file with the
\* target rate at outputPath, and a rewrite whose rename fails leaves the
\* original file at outputPath.
C14_RewriteKeepsOriginal ==
  /\ [][(cpc = "awaitRename" /\ cpc' = "returned")
          => outFile'[outputPath] = Complete(TargetRate)]_vars
  /\ [][(cpc = "awaitRename" /\ lastError' = Err("fileSystem", attempt, "rename failed"))
          => Exists(outFile'[outputPath])]_vars

\* the step in which ffprobe reported the target rate for the file at outputPath
ProbedTargetRate ==
  /\ cpc = "awaitFfprobe" /\ outFile[outputPath].rate = TargetRate
  /\ lastError' = lastError /\ ppc' = "inCaption"

\* C15: when ffprobe reports the target rate, that same step returns
\* outputPath: the encoder is not started, no unlink and no rename is made, and
\* the file at outputPath and the temporary sibling path are as they were; an
\* attempt that returned straight after ffprobe ran none of ffmpeg, unlink, rename.
C15_NormalizationNoOp ==
  /\ [][ProbedTargetRate
          => /\ cpc' = "returned" /\ result' = Returned(outputPath)
             /\ trace' = trace
             /\ outFile' = outFile /\ tmpFile' = tmpFile]_vars
  /\ []((cpc = "returned" /\ attempt >= 1 /\ Last(trace).op = "ffprobe") =>
          \A i \in 1..Len(trace) : trace[i].op \notin {"ffmpeg", "unlink", "rename"})

C15_Witness ==
  /\ cpc = "returned" /\ attempt >= 1 /\ Last(trace).op = "ffprobe"
  /\ outFile[outputPath] = Complete(TargetRate) /\ tmpFile = Absent

\* C16 (as stated): the attempt that finds no provider code for the language
\* ends the request: the error is thrown to the caller in that step, without
\* backoff, and a request for such a language makes one upload at most.
C16_UnsupportedLanguageNotRetried ==
  /\ [][(cpc = "awaitUpload" /\ lastError'.kind = "unsupportedLanguage")
          => cpc' = "threw" /\ backoffs' = backoffs]_vars
  /\ [](~HasZapcapCode(language) => uploadsReceived <= 1)

\* a variable the CaptionService constructor requires is unset or blank
CaptionConfigMissing ==
  \E n \in {"ZAPCAP_API_KEY", "ZAPCAP_TEMPLATE_ID", "OPENAI_API_KEY"} : IsBlank(env[n])
ConstructorSteps == {ConstructorReads[i].fails : i \in 1..Len(ConstructorReads)}

AfterCaption == {"awaitRenderExists", "awaitSetup", "done"}

\* C18: a caption request exists exactly while processVideo is suspended on
\* it, so there is one at most, and outside it no attempt, call or upload
\* exists; the request ends only by its return, its throw or the death of the
\* process; the render of the next language, the first stage of the next
\* video and the end of the run are entered only from a request that returned
\* (a request that threw ends the run); and inside a request a call is
\* started only by the step that consumed the result of the one before it,
\* so no two are outstanding.
C18_StrictlySequential ==
  /\ [](cpc # "idle" <=> ppc = "inCaption")
  /\ [](ppc # "inCaption" => (trace = <<>> /\ uploadsReceived = 0 /\ attempt = 0))
  /\ [][(cpc # "idle" /\ cpc' = "idle")
          => (cpc \in {"returned", "threw"} \/ ppc' = "killed")]_vars
  /\ [][(ppc = "inCaption" /\ ppc' \in AfterCaption) => (cpc = "returned" /\ cpc' = "idle")]_vars
  /\ [][(ppc' = "inCaption" /\ ppc # "inCaption")
          => (ppc \in {"awaitRenderExists", "awaitRender"} /\ cpc = "idle"
              /\ cpc' = "awaitFileExists")]_vars
  /\ [][(trace' # trace /\ trace' # <<>>)
          => \/ trace' = <<Call("upload")>> /\ ~InAttempt
             \/ /\ InAttempt /\ InAttempt'
                /\ Len(trace') = Len(trace) + 1
                /\ SubSeq(trace', 1, Len(trace)) = trace]_vars

C18_Witness ==
  /\ ppc = "awaitRenderExists" /\ li = 2 /\ cpc = "idle"
  /\ \E i \in 1..Len(stages) :
       stages[i] = [stage |-> "caption", language |-> languages[1], ran |-> TRUE]
  /\ outFile[<<videoIdNow, languages[1]>>] = Complete(TargetRate)

\* the step leaves every file of the workspace as it is
FilesUntouched ==
  /\ artifacts' = artifacts /\ rendered' = rendered
  /\ outFile' = outFile /\ tmpFile' = tmpFile
\* the stage invoked last has not gone past its existence check
LastStageSkipped == ppc' = "killed" \/ ~stages'[Len(stages)].ran

\* C19: each of screenshot extraction, text generation, music selection,
\* voiceover synthesis, render and captioning starts with the existence check
\* of its output file, and when the file exists the step that consumes the
\* check does not enter the stage's generating call, changes no file and goes
\* on with what follows the stage (captioning returns outputPath); a stage is
\* only ever marked as having run by a check that found no file; hence a video
\* whose files all exist passes every stage without any such call.
C19_IdempotentStages ==
  /\ [][(ppc = "awaitScreenshotExists" /\ Exists(ArtifactFile("screenshot", NoLanguage)))
          => (ppc' \in {"awaitInputs", "killed"} /\ FilesUntouched /\ LastStageSkipped)]_vars
  /\ [][(ppc = "awaitTextsExists" /\ Exists(ArtifactFile("texts", NoLanguage)))
          => (ppc' # "awaitTexts" /\ FilesUntouched /\ LastStageSkipped)]_vars
  /\ [][(ppc = "awaitMusicExists" /\ Exists(ArtifactFile("music", NoLanguage)))
          => (ppc' # "awaitMusic" /\ FilesUntouched /\ LastStageSkipped)]_vars
  /\ [][(ppc = "awaitVoiceoverExists" /\ Exists(ArtifactFile("voiceover", language)))
          => (ppc' # "awaitVoiceover" /\ FilesUntouched /\ LastStageSkipped)]_vars
  /\ [][(ppc = "awaitRenderExists" /\ rendered[outputPath])
          => (ppc' \in {"inCaption", "killed"} /\ FilesUntouched /\ LastStageSkipped)]_vars
  /\ [][(cpc = "awaitFileExists" /\ Exists(outFile[outputPath]))
          => /\ (cpc' = "returned" /\ result' = Returned(outputPath)) \/ ppc' = "killed"
             /\ trace' = <<>> /\ uploadsReceived' = 0
             /\ FilesUntouched /\ LastStageSkipped]_vars
  /\ [][\A i \in 1..Len(stages') :
          (stages'[i].ran /\ (i > Len(stages) \/ ~stages[i].ran)) =>
            /\ i = Len(stages) /\ Len(stages') = Len(stages)
            /\ CASE stages[i].stage = "render" -> ~rendered[outputPath]
                 [] stages[i].stage = "caption" -> ~Exists(outFile[outputPath])
                 [] OTHER -> ~Exists(ArtifactFile(stages[i].stage, stages[i].language))]_vars
  /\ [](ppc \in {"awaitScreenshot", "awaitTexts", "awaitMusic", "awaitVoiceover",
                 "awaitRender"} => stages[Len(stages)].ran)
  /\ [](InAttempt => stages[Len(stages)].ran)

\* the first video, all of whose files existed, has passed all its stages
C19_Witness ==
  /\ vi = 1 /\ li = Len(languages) /\ cpc = "returned" /\ attempt = 0 /\ trace = <<>>
  /\ Len(stages) = 4 + 3 * Len(languages)
  /\ \A i \in 1..Len(stages) : ~stages[i].ran
  /\ \E i \in 1..Len(stages) : stages[i].stage = "music"

\* the stages of a video in the order the claim gives, as <<stage, language>>
StagePlan ==
  LET n == Len(languages)
  IN <<  <<"screenshot", NoLanguage>>, <<"texts", NoLanguage>> >>
     \o (IF setups[videoIdNow].backgroundMusic THEN << <<"music", NoLanguage>> >> ELSE << >>)
     \o [i \in 1..n |-> <<"voiceover", languages[i]>>]
     \o << <<"assets", NoLanguage>> >>
     \o [i \in 1..(2 * n) |->
           IF i % 2 = 1 THEN <<"render", languages[(i + 1) \div 2]>>
           ELSE <<"caption", languages[i \div 2]>>]
     \o << <<"summary", NoLanguage>> >>

\* C20: the stages invoked for a video are always a prefix of: screenshot,
\* texts, music if the setup enables it (and not otherwise), the voiceover of
\* every language in list order, the asset upload, then render and caption of
\* each language in list order, then the summary; a stage is invoked one at a
\* time; and while a caption request for a language exists the render of that
\* language returned just before it (its file exists) and generatedTexts holds
\* a non-empty text for that language.
C20_StageOrder ==
  /\ [](/\ Len(stages) <= Len(StagePlan)
        /\ \A i \in 1..Len(stages) : <<stages[i].stage, stages[i].language>> = StagePlan[i])
  /\ [][stages' = <<>> \/ Len(stages') <= Len(stages) + 1]_vars
  /\ [](cpc # "idle" =>
          /\ HasGeneratedText(texts, language)
          /\ rendered[outputPath]
          /\ Len(stages) >= 2
          /\ stages[Len(stages)].stage = "caption" /\ stages[Len(stages)].language = language
          /\ stages[Len(stages) - 1].stage = "render"
          /\ stages[Len(stages) - 1].language = language)
  /\ [](ppc = "done" => Len(stages) = Len(StagePlan))

\* the run ended after the last video, which has no background music
C20_Witness ==
  /\ ppc = "done" /\ vi = Len(VideoIds)
  /\ ~setups[videoIdNow].backgroundMusic
  /\ Len(stages) = 4 + 3 * Len(languages)
  /\ stages[Len(stages)].stage = "summary"
  /\ \E i \in 1..Len(stages) : stages[i].stage = "caption" /\ stages[i].ran

\* the step in which an attempt ends by an error: it leaves the attempt, and
\* neither returns nor is the death of the process
AttemptFails == InAttempt /\ ~InAttempt' /\ cpc' # "returned" /\ ppc' # "killed"
\* the kinds of error the phases of an attempt raise
PhaseErrors ==
  {"network", "provider", "unsupportedLanguage", "taskFailed", "correction",
   "correctionShape", "mediaProbe", "mediaEncode", "fileSystem"}

\* C21: a step in which an attempt ends by an error never reaches the caller:
\* processVideo stays suspended on the request, the error is recorded as
\* lastError (an error of this attempt), and the backoff before the next
\* attempt follows when attempt < maxAttempts, the aggregated error carrying
\* lastError otherwise; lastError is only ever set by such a step; the step
\* after the backoff starts the next attempt; and the caller only ever sees
\* the aggregated error.
C21_CaughtAtAttemptBoundary ==
  /\ [][AttemptFails
          => /\ ppc' = "inCaption" /\ failedStage' = "none"
             /\ lastError'.kind \in PhaseErrors /\ lastError'.attempt = attempt
             /\ trace' = trace /\ uploadsReceived' = uploadsReceived
             /\ IF Less(attempt, maxRetryAttempts)
                THEN cpc' = "awaitBackoff" /\ result' = NoResult /\ attempt' = attempt
                ELSE cpc' = "threw" /\ result' = Thrown(lastError')]_vars
  /\ [][(lastError' # lastError /\ lastError' # Undefined) => AttemptFails]_vars
  /\ [][cpc = "awaitBackoff"
          => \/ cpc' = "awaitUpload" /\ attempt' = attempt + 1 /\ lastError' = lastError
             \/ ppc' = "killed"]_vars
  /\ [][(ppc = "inCaption" /\ ppc' = "fatal")
          => (cpc = "threw" /\ result = Thrown(lastError) /\ failedStage' = "caption")]_vars

C21_Witness ==
  /\ cpc = "awaitUpload" /\ attempt = 2 /\ lastError = Err("mediaEncode", 1, "ffmpeg exited with an error")
  /\ ppc = "inCaption"

\* the operations that follow a polling phase that returned a status
AfterPolling == {"getTranscript", "download"}
\* the poll sleeps of the current attempt since the polling phase began
SleepsOfPhase ==
  LET from == IF \E j \in 1..Len(trace) : trace[j].op = "approve"
              THEN CHOOSE j \in 1..Len(trace) : trace[j].op = "approve" ELSE 1
  IN Cardinality({i \in from..Len(trace) : trace[i].op = "pollSleep"})

\* C22: the step that consumes a probe answer with a target status ends the
\* polling phase: it starts the operation that follows the phase (or fails the
\* attempt for a missing URL) and neither a probe nor a sleep; every sleep of
\* the loop is 2000 ms, directly follows a probe and is directly followed by
\* the next probe; a probe is followed by nothing else than its one sleep or
\* the end of the phase, so between two probes of a phase there is exactly one
\* sleep and a phase that ended after n probes made n - 1 sleeps.
C22_PollPacing ==
  /\ [][(cpc = "awaitStatus" /\ status'.status \in targetStatuses)
          => /\ cpc' \in {"awaitTranscript", "awaitDownload"}
             /\ status = NoStatus
             /\ Len(trace') = Len(trace) + 1 /\ Last(trace').op \in AfterPolling]_vars
  /\ [][(cpc = "awaitStatus" /\ lastError' # lastError
           /\ lastError'.detail \in {"no transcript URL", "no download URL"})
          => trace' = trace]_vars
  /\ [](\A i \in 1..Len(trace) :
          /\ trace[i].op = "pollSleep" =>
               /\ trace[i].ms = 2000
               /\ i > 1 /\ trace[i - 1].op = "status"
               /\ i < Len(trace) => trace[i + 1].op = "status"
          /\ (trace[i].op = "status" /\ i < Len(trace)) =>
               trace[i + 1].op \in {"pollSleep"} \cup AfterPolling
          /\ (trace[i].op = "status" /\ i > 1) =>
               trace[i - 1].op \in {"pollSleep", "createTask", "approve"})
  /\ [](cpc \in {"awaitTranscript", "awaitDownload"} =>
          (probes >= 1 /\ SleepsOfPhase = probes - 1 /\ Last(trace).op \in AfterPolling))
  /\ [](cpc = "awaitPollSleep" => (Last(trace) = SleepCall(2000) /\ SleepsOfPhase = probes))

C22_Witness ==
  /\ cpc = "awaitDownload" /\ probes = 2 /\ SleepsOfPhase = 1
  /\ status.status = "completed"

\* the status values the provider documents
DocumentedStatuses ==
  {"queued", "transcribing", "transcriptionCompleted", "rendering", "completed", "failed"}

\* C23 (as stated): the step that consumes a probe answer whose status is not
\* one of the documented values fails the attempt: an error is recorded and
\* neither a sleep nor a further probe is started.
C23_UnknownStatusFailsLoudly ==
  [][(cpc = "awaitStatus" /\ status' # NoStatus /\ status'.status \notin DocumentedStatuses)
       => /\ lastError' # lastError /\ lastError'.attempt = attempt
          /\ cpc' \in {"awaitBackoff", "threw"}
          /\ trace' = trace]_vars

\* approveTranscript was started in the current attempt
Approved == \E j \in 1..Len(trace) : trace[j].op = "approve"
\* the polling phases the current attempt has entered: the probes that do not
\* follow a sleep
PhasesEntered ==
  Cardinality({i \in 2..Len(trace) : trace[i].op = "status" /\ trace[i - 1].op # "pollSleep"})
OpCount(op) == Cardinality({i \in 1..Len(trace) : trace[i].op = op})

\* C24: while an attempt polls, the target is transcript-ready before approve
\* and `completed` after it; the first phase is left for the transcript fetch
\* only on a transcript-ready answer and the second for the download only on a
\* `completed` answer; a `completed` answer in the first phase and a
\* transcript-ready answer in the second start the poll sleep like any
\* non-terminal status; `failed` fails the attempt in either phase; and an
\* attempt that returned entered exactly two phases, the first right after
\* createTask (before the correction) and the second right after approve.
C24_PhaseTargets ==
  /\ [](cpc \in {"awaitStatus", "awaitPollSleep"} =>
          targetStatuses = IF Approved THEN {"completed"} ELSE {"transcriptionCompleted"})
  /\ [][(cpc = "awaitStatus" /\ cpc' = "awaitTranscript")
          => (~Approved /\ status'.status = "transcriptionCompleted")]_vars
  /\ [][(cpc = "awaitStatus" /\ cpc' = "awaitDownload")
          => (Approved /\ status'.status = "completed")]_vars
  /\ [][(cpc = "awaitStatus" /\ ~Approved /\ status'.status = "completed")
          => (cpc' = "awaitPollSleep" /\ lastError' = lastError)]_vars
  /\ [][(cpc = "awaitStatus" /\ Approved /\ status'.status = "transcriptionCompleted")
          => (cpc' = "awaitPollSleep" /\ lastError' = lastError)]_vars
  /\ [][(cpc = "awaitStatus" /\ status'.status = "failed")
          => (lastError'.kind = "taskFailed" /\ cpc' \in {"awaitBackoff", "threw"})]_vars
  /\ []((cpc = "returned" /\ attempt >= 1) =>
          /\ PhasesEntered = 2
          /\ OpCount("createTask") = 1 /\ OpCount("approve") = 1
          /\ OpCount("getTranscript") = 1 /\ OpCount("download") = 1
          /\ \A i \in 2..Len(trace) :
               (trace[i].op = "status" /\ trace[i - 1].op # "pollSleep") =>
                 \/ trace[i - 1].op = "createTask"
                      /\ \A j \in 1..i : trace[j].op # "correct"
                 \/ trace[i - 1].op = "approve")

C24_Witness ==
  /\ cpc = "awaitPollSleep" /\ Approved /\ status.status = "transcriptionCompleted"
  /\ status.transcript # NoUrl

\* the list the current attempt sent to the correction model
SentChunks ==
  (CHOOSE c \in {trace[i] : i \in 1..Len(trace)} : c.op = "correct").chunks
CorrectionSent == \E i \in 1..Len(trace) : trace[i].op = "correct"

\* C25: while an attempt is past the transcript fetch, the list it sent to the
\* correction model has one entry for every chunk
\* whose text is a non-empty string and no other: entry k is the text, and
\* nothing but the text, of the k-th such chunk in transcript order, so no
\* entry comes from a chunk with absent or empty text; and in the merged
\* transcript a chunk with absent or empty text is the chunk as fetched.
C25_PlaceholdersNotCorrected ==
  (InAttempt /\ CorrectionSent) =>
    /\ Len(SentChunks) = TextRank(originalTranscript, Len(originalTranscript))
    /\ \A i \in 1..Len(originalTranscript) :
         (originalTranscript[i].text \notin {NoText, ""}) =>
           SentChunks[TextRank(originalTranscript, i)] = [text |-> originalTranscript[i].text]
    /\ \A k \in 1..Len(SentChunks) :
         /\ DOMAIN SentChunks[k] = {"text"}
         /\ SentChunks[k].text \notin {NoText, ""}
    /\ cpc = "awaitPut" =>
         \A i \in 1..Len(originalTranscript) :
           (originalTranscript[i].text \in {NoText, ""}) =>
             correctedTranscript[i] = originalTranscript[i]

C25_Witness ==
  /\ cpc = "awaitPut"
  /\ originalTranscript = <<Chunk("", 1), Chunk("helo", 2), Chunk(NoText, 3)>>
  /\ SentChunks = <<Item("helo")>>
  /\ correctedTranscript = <<Chunk("", 1), Chunk("hello", 2), Chunk(NoText, 3)>>

\* resampleAudioIfNeeded is running
Normalizing == cpc \in {"awaitFfprobe", "awaitFfmpeg", "awaitUnlink", "awaitRename"}

\* C26: while the encoder runs, the temporary sibling file is the one being
\* written and outputPath holds the complete downloaded file, whose rate is
\* not the target; every step out of the encode (its success, its failure,
\* the death of the process) leaves outputPath as it is; a complete file at
\* outputPath is only ever removed by the unlink that follows a finished
\* encode, with the complete re-encoded file at the temporary path; and from
\* the start of the normalization to its end outputPath never holds a
\* partially written file.
C26_AtomicReplacement ==
  /\ [](cpc = "awaitFfmpeg" =>
          /\ tmpFile = Partial
          /\ outFile[outputPath].state = "complete"
          /\ outFile[outputPath].rate \notin {0, TargetRate})
  /\ [][cpc = "awaitFfmpeg" => outFile' = outFile]_vars
  /\ [][(cpc = "awaitFfmpeg" /\ cpc' = "awaitUnlink") => tmpFile' = Complete(TargetRate)]_vars
  /\ [][\A p \in Paths :
          (outFile[p].state = "complete" /\ outFile'[p] # outFile[p] /\ Normalizing) =>
            /\ p = outputPath /\ cpc = "awaitUnlink" /\ outFile'[p] = Absent
            /\ tmpFile = Complete(TargetRate)
            /\ \E i \in 1..Len(trace) : trace[i].op = "ffmpeg"]_vars
  /\ [](Normalizing => outFile[outputPath].state # "partial")
  /\ [][Normalizing => outFile'[outputPath].state # "partial"]_vars

\* the process died while the encoder was running
C26_Witness ==
  /\ ppc = "killed" /\ tmpFile = Partial
  /\ outFile[outputPath] = Complete(48000)

\* the other invocation is inside an attempt and its upload was answered
PeerHasJob == peer.pc \in PeerPhaseSet /\ peer.pc # "awaitUpload"

\* C27: an invocation is suspended on the existence check of outputPath only
\* at its start: no step brings it (or the other invocation) back to the
\* check; once past it the invocation never looks at outputPath again to
\* decide whether to go on: with a file at outputPath the backoff is still
\* followed by the next attempt's upload, and a return after an attempt is
\* always the return of a completed attempt; and two invocations that are
\* both inside an attempt work on different jobs, each call of this one naming
\* its own job.
C27_GateCheckedOnce ==
  /\ [][cpc' = "awaitFileExists" => cpc = "awaitFileExists"]_vars
  /\ [][peer'.pc = "awaitFileExists" => peer.pc = "awaitFileExists"]_vars
  /\ [](cpc = "awaitFileExists" => (attempt = 0 /\ trace = <<>>))
  /\ [][(cpc = "awaitBackoff" /\ cpc' # cpc /\ Exists(outFile[outputPath]))
          => (cpc' = "awaitUpload" /\ attempt' = attempt + 1)]_vars
  /\ [][(peer.pc = "awaitBackoff" /\ peer' # peer /\ Exists(outFile[outputPath]))
          => (peer'.pc = "awaitUpload" /\ peer'.attempt = peer.attempt + 1)]_vars
  /\ []((cpc = "returned" /\ attempt >= 1) => Last(trace).op \in {"ffprobe", "rename"})
  /\ []((InAttempt /\ cpc # "awaitUpload" /\ PeerHasJob) =>
          /\ videoId # peer.job
          /\ \A i \in 1..Len(trace) : trace[i].job \in {NoId, videoId})

\* both invocations found outputPath absent, each made its own upload, and
\* both have opened outputPath for writing
C27_Witness ==
  /\ cpc = "awaitPipeline" /\ peer.pc = "awaitPipeline"
  /\ attempt = 1 /\ peer.attempt = 1
  /\ videoId = JobOfUpload(1) /\ peer.job = PeerJobOfUpload(1)
  /\ outFile[outputPath] = Partial

\* C28: in a request for a language without a provider code every attempt
\* consists of its upload and nothing else: the step that consumes the
\* upload's answer with a video id fails the attempt with the
\* unsupported-language error without starting a call, so no create-task
\* request, status probe, transcript fetch, correction call, putTranscript,
\* approve or download is ever started, while each attempt does send its upload.
C28_UnsupportedLanguageAfterUpload ==
  /\ []((cpc # "idle" /\ language \notin DOMAIN languageToZapcapCode) =>
          /\ \A i \in 1..Len(trace) : trace[i] = Call("upload")
          /\ Len(trace) <= 1
          /\ taskId = NoId /\ transcriptUrl = NoUrl /\ downloadUrl = NoUrl
          /\ InAttempt => (cpc = "awaitUpload" /\ trace = <<Call("upload")>>
                           /\ uploadsReceived = attempt))
  /\ [][(cpc = "awaitUpload" /\ language \notin DOMAIN languageToZapcapCode
           /\ videoId' # videoId /\ ppc' # "killed")
          => /\ videoId' = JobOfUpload(uploadsReceived)
             /\ lastError' = Err("unsupportedLanguage", attempt, language)
             /\ cpc' \in {"awaitBackoff", "threw"}
             /\ trace' = trace /\ uploadsReceived' = uploadsReceived]_vars
  /\ [](lastError.kind = "unsupportedLanguage" =>
          (language \notin DOMAIN languageToZapcapCode /\ uploadsReceived >= lastError.attempt))

C28_Witness ==
  /\ cpc = "threw" /\ language = "UKRAINIAN" /\ uploadsReceived = 3
  /\ lastError = Err("unsupportedLanguage", 3, "UKRAINIAN")
  /\ videoId = JobOfUpload(3)

\* C29 (as stated): the call resolves only when its last HEAD probe succeeded,
\* with no probe after it; when it throws, exactly maxAttempts probes were
\* sent, all failed, and a sleep of intervalMs followed each but the last;
\* and a call that ended without a successful probe threw, for every
\* maxAttempts, 0 included.
C29_UrlAvailabilityWait ==
  /\ avail.pc = "resolved" => (avail.succeeded /\ avail.probes = avail.attempt)
  /\ avail.pc = "threw" =>
       /\ ~avail.succeeded
       /\ avail.probes = avail.maxAttempts
       /\ Len(avail.sleeps) = avail.maxAttempts - 1
       /\ \A i \in 1..Len(avail.sleeps) : avail.sleeps[i] = avail.intervalMs
  /\ (avail.pc \in {"resolved", "threw"} /\ ~avail.succeeded) =>
       (avail.pc = "threw" /\ avail.probes = avail.maxAttempts)

\* the values of CAPTION_MAX_RETRIES that are zero, negative or not a number
NotAPositiveCount == { <<"0">>, <<"-", "1">>, <<"x">> }
\* the number the other values of CAPTION_MAX_RETRIES stand for ("1x" is
\* read as 1, an unset variable as the default 3)
ConfiguredCount ==
  CASE retryEnv = <<>> -> 3
    [] retryEnv = <<"1", "x">> -> 1
    [] OTHER -> 0

====
